---- MODULE Spec2Model ----
(***************************************************************************)
(* Model of the claude-azure protocol gateway (proxy): one client request  *)
(* to the translation entrypoint, the payload built for the backend, the   *)
(* candidate URL list, the dispatcher with fallback, and the two streaming *)
(* sub-protocols (native relay, synthesized stream).  The variables below  *)
(* up to nLines are the state of one request's handler (its closures); the *)
(* server of several connections keeps the handlers that are waiting for   *)
(* a callback in `parked`.                                                 *)
(*                                                                         *)
(* JavaScript objects are modelled as functions from field names to        *)
(* values: a field that is absent in the object is absent from the DOMAIN. *)
(* A falsy string is "", a falsy number is 0.                              *)
(***************************************************************************)
EXTENDS Integers, Sequences, FiniteSets, TLC

VARIABLES
    httpReq,        \* the client request being handled: method and url
    cfg,            \* AzureConfig the proxy was created with
    store,          \* azure.reasoningEffort of the configuration store ("" is unset)
    claudeReq,      \* the client request's body: JSON.parse(body), or [raw |-> ..]
                    \* for a body JSON.parse rejects
    pc,             \* position of the request's handler
    mode,           \* which handler serves the request
    openaiReq,      \* the logical payload built by buildOpenAIRequest
    optionsList,    \* reqOptionsList: the ordered candidate list
    i,              \* loop index of requestWithFallback (1-based)
    lastError,      \* requestWithFallback's lastError, or the error a callback got
    outcomes,       \* what each backend request of the dispatcher ended with
    result,         \* what requestWithFallback returned (absent until it returns)
    sent,           \* every backend request issued: candidate, position, payload
    res,            \* the client response object: status, headersSent, ended, body
    events,         \* the SSE events written to the client, in order
    relay,          \* handleStreaming's closure state
    nLines,         \* number of backend stream lines consumed so far
    heard,          \* what the backend delivered to the native relay (history)
    conn,           \* the connection whose handler the variables above belong to
    parked,         \* the handlers of the other connections, by connection
    last,           \* how the request the gateway completed last ended (history)
    updater         \* the auto-updater: cache file, clock, revisions, last answers

\* the state of one request's handler
handlerVars == <<claudeReq, pc, mode, openaiReq, optionsList, i, lastError,
                 outcomes, result, sent, res, events, relay, nLines>>

\* the state of the server around the handler that is running
serverVars == <<heard, conn, parked, last>>

vars == <<cfg, httpReq, store, handlerVars, serverVars, updater>>

(***************************************************************************)
(* Bounds of the model.                                                    *)
(***************************************************************************)
\* total number of "data:" lines a backend stream delivers
MaxLines == 3
\* number of lines one 'data' event (one network chunk) may carry
MaxLinesPerChunk == 2

(***************************************************************************)
(* Generic helpers.                                                        *)
(***************************************************************************)
Range(s) == {s[k] : k \in DOMAIN s}

Has(o, f) == f \in DOMAIN o

\* o.f with a default for an absent (or falsy) field
Get(o, f, d) == IF Has(o, f) THEN o[f] ELSE d

\* object spread without one field: { ...o } followed by delete o[f]
Without(o, f) == [k \in DOMAIN o \ {f} |-> o[k]]

\* o[f] = v on an object
With(o, f, v) == (f :> v) @@ o

RECURSIVE Concat(_)
Concat(ss) == IF ss = <<>> THEN <<>> ELSE Head(ss) \o Concat(Tail(ss))

(***************************************************************************)
(* Endpoint resolver.                                                      *)
(***************************************************************************)
\* apiVersion.startsWith('2025-04-01') || apiVersion.startsWith('2024-08-01'),
\* over the version strings of the model
isResponsesApiVersion(apiVersion) ==
    apiVersion \in {"2025-04-01-preview", "2024-08-01-preview"}

shouldUseResponsesAPI(config) ==
    config.router # "" \/ isResponsesApiVersion(config.apiVersion)

\* the letters String.prototype.toLowerCase changes in a model name
UpperCaseLetters == "ABCDEFGHIJKLMNOPQRSTUVWXYZ"
LowerCaseLetters == "abcdefghijklmnopqrstuvwxyz"

CharAt(s, k) == SubSeq(s, k, k)

\* each upper-case letter's lower-case letter
LowerCaseOf ==
    [ch \in {CharAt(UpperCaseLetters, k) : k \in 1..Len(UpperCaseLetters)} |->
        CharAt(LowerCaseLetters,
               CHOOSE k \in 1..Len(UpperCaseLetters) : CharAt(UpperCaseLetters, k) = ch)]

ToLowerCaseChar(ch) == IF ch \in DOMAIN LowerCaseOf THEN LowerCaseOf[ch] ELSE ch

\* the character at position k of s.toLowerCase()
LowerCaseCharAt(s, k) == ToLowerCaseChar(CharAt(s, k))

\* String.prototype.includes on the characters chars(s, k) of a string
IncludesBy(s, part, chars(_, _)) ==
    \E k \in 1..(Len(s) - Len(part) + 1) :
        \A j \in 1..Len(part) : chars(s, k + j - 1) = CharAt(part, j)

\* the marker test that compares the name as it was written
ModelIncludesCaseSensitive(model, marker) == IncludesBy(model, marker, CharAt)

\* model.toLowerCase().includes(marker)
ModelIncludes(model, marker) == IncludesBy(model, marker, LowerCaseCharAt)

getDeployment(model, config) ==
    IF config.router # "" THEN config.router
    ELSE IF ModelIncludes(model, "opus")
         THEN (IF config.deployments.opus # "" THEN config.deployments.opus ELSE "gpt-4o")
    ELSE IF ModelIncludes(model, "haiku")
         THEN (IF config.deployments.haiku # "" THEN config.deployments.haiku ELSE "gpt-4o-mini")
    ELSE (IF config.deployments.sonnet # "" THEN config.deployments.sonnet ELSE "gpt-4o")

\* the model name of the earlier proxy: the client's name goes to the router
getModelNamePassThrough(model, config) ==
    IF config.router # "" THEN model ELSE getDeployment(model, config)

getModelName(model, config) ==
    IF config.router # "" THEN config.router ELSE getDeployment(model, config)

\* a message's content is [str |-> text] or [blocks |-> sequence of blocks]
hasToolUsage(messages) ==
    \E m \in DOMAIN messages :
        /\ Has(messages[m].content, "blocks")
        /\ \E b \in DOMAIN messages[m].content.blocks :
              messages[m].content.blocks[b].type \in {"tool_use", "tool_result"}

\* A URL is its path kind, its deployment segment and its api-version.
ResponsesUrl(version) ==
    [path |-> "/openai/responses", deployment |-> "", version |-> version]
DeploymentResponsesUrl(deployment, version) ==
    [path |-> "/openai/deployments/<d>/responses", deployment |-> deployment, version |-> version]
ChatCompletionsUrl(deployment, version) ==
    [path |-> "/openai/deployments/<d>/chat/completions", deployment |-> deployment, version |-> version]

\* options.path?.includes('/chat/completions')
IsChatCompletionsPath(options) == options.path = "/openai/deployments/<d>/chat/completions"

RECURSIVE buildResponsesUrlsFrom(_, _, _, _)
buildResponsesUrlsFrom(azure, deployment, versions, seen) ==
    IF versions = <<>> THEN <<>>
    ELSE LET version == Head(versions) IN
         IF version = "" \/ version \in seen
         THEN buildResponsesUrlsFrom(azure, deployment, Tail(versions), seen)
         ELSE (IF azure.router # "" THEN <<ResponsesUrl(version)>> ELSE <<>>)
              \o <<DeploymentResponsesUrl(deployment, version)>>
              \o buildResponsesUrlsFrom(azure, deployment, Tail(versions), seen \cup {version})

\* the list built without the set of versions seen
buildResponsesUrlsNoDedup(azure, deployment) ==
    buildResponsesUrlsFrom(azure, deployment, <<azure.apiVersion>>, {})
    \o buildResponsesUrlsFrom(azure, deployment, <<"2025-04-01-preview">>, {})

buildResponsesUrls(azure, deployment) ==
    buildResponsesUrlsFrom(azure, deployment, <<azure.apiVersion, "2025-04-01-preview">>, {})

\* the azureUrls of the request handler, fallback included
CandidateUrls(azure, deployment, useResponsesAPI) ==
    LET first == IF useResponsesAPI
                 THEN buildResponsesUrls(azure, deployment)
                 ELSE <<ChatCompletionsUrl(deployment, azure.apiVersion)>>
    IN  IF useResponsesAPI /\ azure.router = ""
        THEN Append(first, ChatCompletionsUrl(deployment, azure.apiVersion))
        ELSE first

(***************************************************************************)
(* Content model translator, forward direction.                            *)
(* A text is a sequence of tokens; the token " " is white space.  The      *)
(* structured input of a tool invocation is a JSON object: a function from *)
(* keys to JSON values, a value being [str |-> s], [num |-> n],            *)
(* [bool |-> b], [null |-> TRUE], [arr |-> <<values>>] or                  *)
(* [obj |-> object].  JSON.stringify writes an object as a string of       *)
(* characters and JSON.parse reads one back, character by character.       *)
(***************************************************************************)
EmptyObject == [k \in {} |-> ""]
PathObject == [path |-> [str |-> "a"]]

DigitChars == "0123456789"
IsDigit(ch) == \E d \in 1..10 : CharAt(DigitChars, d) = ch
DigitValue(ch) == (CHOOSE d \in 1..10 : CharAt(DigitChars, d) = ch) - 1

RECURSIVE Digits(_)
Digits(n) ==
    IF n < 10 THEN CharAt(DigitChars, n + 1)
    ELSE Digits(n \div 10) \o CharAt(DigitChars, (n % 10) + 1)

\* the quote and the backslash of a string get a backslash in front
RECURSIVE EscapeString(_)
EscapeString(s) ==
    IF s = "" THEN ""
    ELSE LET ch == CharAt(s, 1)
         IN  (IF ch \in {"\"", "\\"} THEN "\\" \o ch ELSE ch)
             \o EscapeString(SubSeq(s, 2, Len(s)))

\* a string written between quotes as it is
QuoteUnescaped(s) == "\"" \o s \o "\""

\* a string as JSON.stringify writes it
Quote(s) == "\"" \o EscapeString(s) \o "\""

\* the keys of an object in the order they are written
KeysOf(object) ==
    CHOOSE keys \in [1..Cardinality(DOMAIN object) -> DOMAIN object] :
        \A j, k \in DOMAIN keys : j # k => keys[j] # keys[k]

RECURSIVE JoinWith(_, _)
JoinWith(parts, sep) ==
    IF parts = <<>> THEN ""
    ELSE IF Len(parts) = 1 THEN parts[1]
    ELSE parts[1] \o sep \o JoinWith(Tail(parts), sep)

RECURSIVE StringifyValue(_)
JSONStringify(v) ==
    "{" \o JoinWith([k \in 1..Cardinality(DOMAIN v) |->
                           Quote(KeysOf(v)[k]) \o ":" \o StringifyValue(v[KeysOf(v)[k]])],
                       ",") \o "}"

StringifyValue(value) ==
    IF Has(value, "str") THEN Quote(value.str)
    ELSE IF Has(value, "num") THEN Digits(value.num)
    ELSE IF Has(value, "bool") THEN (IF value.bool THEN "true" ELSE "false")
    ELSE IF Has(value, "arr")
         THEN "[" \o JoinWith([k \in DOMAIN value.arr |-> StringifyValue(value.arr[k])],
                                 ",") \o "]"
    ELSE IF Has(value, "obj") THEN JSONStringify(value.obj)
    ELSE "null"

\* [ok |-> FALSE] stands for the SyntaxError JSON.parse throws; a successful
\* read says where it stopped
SyntaxError == [ok |-> FALSE]
Parsed(value, next) == [ok |-> TRUE, value |-> value, next |-> next]
Peek(s, p) == IF p <= Len(s) THEN CharAt(s, p) ELSE ""
Literal(s, p, word) == p + Len(word) - 1 <= Len(s) /\ SubSeq(s, p, p + Len(word) - 1) = word

\* the characters of a string after its opening quote
RECURSIVE ParseChars(_, _, _)
ParseChars(s, p, acc) ==
    LET ch == Peek(s, p)
    IN  IF ch = "" THEN SyntaxError
        ELSE IF ch = "\"" THEN Parsed(acc, p + 1)
        ELSE IF ch = "\\"
             THEN IF Peek(s, p + 1) \in {"\"", "\\"}
                  THEN ParseChars(s, p + 2, acc \o Peek(s, p + 1))
                  ELSE SyntaxError
        ELSE ParseChars(s, p + 1, acc \o ch)

ParseString(s, p) == IF Peek(s, p) = "\"" THEN ParseChars(s, p + 1, "") ELSE SyntaxError

RECURSIVE ParseDigits(_, _, _)
ParseDigits(s, p, acc) ==
    IF IsDigit(Peek(s, p)) THEN ParseDigits(s, p + 1, acc * 10 + DigitValue(Peek(s, p)))
    ELSE Parsed(acc, p)

RECURSIVE ParseValue(_, _)
RECURSIVE ParseMembers(_, _, _)
RECURSIVE ParseItems(_, _, _)

\* the members of an object from position p on, after "{" or ","
ParseMembers(s, p, acc) ==
    LET key == ParseString(s, p)
    IN  IF ~key.ok \/ Peek(s, key.next) # ":" THEN SyntaxError
        ELSE LET member == ParseValue(s, key.next + 1)
             IN  IF ~member.ok THEN SyntaxError
                 ELSE LET object == With(acc, key.value, member.value)
                      IN  IF Peek(s, member.next) = "," 
                          THEN ParseMembers(s, member.next + 1, object)
                          ELSE IF Peek(s, member.next) = "}"
                          THEN Parsed(object, member.next + 1)
                          ELSE SyntaxError

\* the items of an array from position p on, after "[" or ","
ParseItems(s, p, acc) ==
    LET item == ParseValue(s, p)
    IN  IF ~item.ok THEN SyntaxError
        ELSE IF Peek(s, item.next) = ","
        THEN ParseItems(s, item.next + 1, Append(acc, item.value))
        ELSE IF Peek(s, item.next) = "]"
        THEN Parsed(Append(acc, item.value), item.next + 1)
        ELSE SyntaxError

Tagged(tag, parsed) ==
    IF parsed.ok THEN Parsed([t \in {tag} |-> parsed.value], parsed.next) ELSE SyntaxError

ParseValue(s, p) ==
    LET ch == Peek(s, p)
    IN  IF ch = "{"
        THEN Tagged("obj", IF Peek(s, p + 1) = "}" THEN Parsed(EmptyObject, p + 2)
                                                  ELSE ParseMembers(s, p + 1, EmptyObject))
        ELSE IF ch = "["
        THEN Tagged("arr", IF Peek(s, p + 1) = "]" THEN Parsed(<<>>, p + 2)
                                                  ELSE ParseItems(s, p + 1, <<>>))
        ELSE IF ch = "\"" THEN Tagged("str", ParseString(s, p))
        ELSE IF IsDigit(ch) THEN Tagged("num", ParseDigits(s, p, 0))
        ELSE IF Literal(s, p, "true") THEN Parsed([bool |-> TRUE], p + 4)
        ELSE IF Literal(s, p, "false") THEN Parsed([bool |-> FALSE], p + 5)
        ELSE IF Literal(s, p, "null") THEN Parsed([null |-> TRUE], p + 4)
        ELSE SyntaxError

\* the whole of s has to be one value; an object is handed over as it is
JSONParse(s) ==
    LET parsed == ParseValue(s, 1)
    IN  IF parsed.ok /\ parsed.next = Len(s) + 1
        THEN [ok |-> TRUE,
              value |-> IF Has(parsed.value, "obj") THEN parsed.value.obj ELSE parsed.value]
        ELSE SyntaxError

RECURSIVE Join(_, _)
Join(parts, sep) ==
    IF parts = <<>> THEN <<>>
    ELSE IF Len(parts) = 1 THEN parts[1]
    ELSE parts[1] \o sep \o Join(Tail(parts), sep)

RECURSIVE TrimStart(_)
TrimStart(t) == IF t # <<>> /\ Head(t) = " " THEN TrimStart(Tail(t)) ELSE t

RECURSIVE TrimEnd(_)
TrimEnd(t) ==
    IF t # <<>> /\ t[Len(t)] = " " THEN TrimEnd(SubSeq(t, 1, Len(t) - 1)) ELSE t

Trim(t) == TrimEnd(TrimStart(t))

\* array.filter(Boolean) on texts
FilterBoolean(parts) == SelectSeq(parts, LAMBDA t : t # <<>>)

BlocksOfType(content, type) == SelectSeq(content, LAMBDA b : b.type = type)

TextPart(block, role, useResponsesAPI) ==
    [type |-> IF useResponsesAPI
              THEN (IF role = "assistant" THEN "output_text" ELSE "input_text")
              ELSE "text",
     text |-> block.text]

ImagePart(block, useResponsesAPI) ==
    [type |-> IF useResponsesAPI THEN "input_image" ELSE "image_url",
     image_url |-> [url |-> <<"data:",
                              IF block.source.media_type # "" THEN block.source.media_type
                                                             ELSE "image/png",
                              ";base64,", block.source.data>>]]

MapSeq(s, Op(_)) == [k \in DOMAIN s |-> Op(s[k])]

TextsOf(parts) == MapSeq(parts, LAMBDA p : p.text)

\* the content of a tool_result block as one text
ResultContent(tr) ==
    IF Has(tr.content, "blocks")
    THEN Join(MapSeq(tr.content.blocks, LAMBDA item : item.text), <<"\n">>)
    ELSE tr.content.str

\* the backend entries one client message becomes
convertMessage(msg, useResponsesAPI) ==
    LET role == IF msg.role # "" THEN msg.role ELSE "user"
        content == msg.content
    IN
    IF Has(content, "str") THEN <<[role |-> role, content |-> [str |-> content.str]]>>
    ELSE
    LET blocks == content.blocks
        textParts == MapSeq(BlocksOfType(blocks, "text"),
                            LAMBDA b : TextPart(b, role, useResponsesAPI))
        imageParts == MapSeq(SelectSeq(blocks, LAMBDA b : b.type = "image"
                                                       /\ b.source.type = "base64"),
                             LAMBDA b : ImagePart(b, useResponsesAPI))
        toolUseBlocks == BlocksOfType(blocks, "tool_use")
        toolResultBlocks == BlocksOfType(blocks, "tool_result")
        textContent == Trim(Join(TextsOf(textParts), <<" ">>))
    IN
    IF role = "assistant" /\ toolUseBlocks # <<>> THEN
        IF useResponsesAPI THEN
            LET toolText == Join(MapSeq(toolUseBlocks, LAMBDA tb :
                                   <<"[Tool: ", tb.name, ", Input: ",
                                     JSONStringify(tb.input), "]">>), <<" ">>)
                combinedContent == Join(FilterBoolean(<<textContent, toolText>>), <<" ">>)
            IN <<[role |-> "assistant", content |-> [str |-> combinedContent]]>>
        ELSE
            LET toolCalls == MapSeq(toolUseBlocks, LAMBDA tb :
                                 [id |-> tb.id, type |-> "function",
                                  function |-> [name |-> tb.name,
                                                arguments |-> JSONStringify(tb.input)]])
            IN <<[role |-> "assistant",
                  content |-> IF textContent # <<>> THEN [str |-> textContent]
                                                   ELSE [null |-> TRUE],
                  tool_calls |-> toolCalls]>>
    ELSE IF toolResultBlocks # <<>> THEN
        IF useResponsesAPI THEN
            LET toolResults == Join(MapSeq(toolResultBlocks, LAMBDA tr :
                                      <<"[Tool Result: ">>
                                      \o (IF tr.is_error THEN <<"Error: ">> ELSE <<>>)
                                      \o ResultContent(tr) \o <<"]">>), <<" ">>)
                combinedContent == Join(FilterBoolean(<<textContent, toolResults>>), <<" ">>)
            IN <<[role |-> "user", content |-> [str |-> combinedContent]]>>
        ELSE
            MapSeq(toolResultBlocks, LAMBDA tr :
                [role |-> "tool", tool_call_id |-> tr.tool_use_id,
                 content |-> [str |-> IF tr.is_error
                                      THEN <<"Error: ">> \o ResultContent(tr)
                                      ELSE ResultContent(tr)]])
            \o (IF textParts # <<>> /\ textContent # <<>>
                THEN <<[role |-> "user", content |-> [str |-> textContent]]>>
                ELSE <<>>)
    ELSE IF textParts # <<>> \/ imageParts # <<>> THEN
        LET combined == textParts \o imageParts IN
        IF Len(combined) = 1 /\ combined[1].type = "text"
        THEN <<[role |-> role, content |-> [str |-> combined[1].text]]>>
        ELSE <<[role |-> role, content |-> [blocks |-> combined]]>>
    ELSE <<>>

\* the claudeReq argument carries the messages and the optional system prompt
convertMessages(claudeMessages, req, useResponsesAPI) ==
    LET sys == IF ~Has(req, "system") THEN <<>>
               ELSE IF Has(req.system, "str")
                    THEN (IF req.system.str # <<>>
                          THEN <<[role |-> "system", content |-> [str |-> req.system.str]]>>
                          ELSE <<>>)
               ELSE <<[role |-> "system",
                       content |-> [str |-> Join(TextsOf(BlocksOfType(req.system.blocks, "text")),
                                                 <<" ">>)]]>>
    IN sys \o Concat(MapSeq(claudeMessages, LAMBDA msg : convertMessage(msg, useResponsesAPI)))

\* JavaScript's Math.min and Math.max on integers
Min(a, b) == IF a < b THEN a ELSE b
Max(a, b) == IF a > b THEN a ELSE b

DefaultMaxTokens == 64000
MinTokenLimit == 4096
MaxTokenLimit == 128000

\* the clamp without its lower limit
ClampTokensNoFloor(maxTokens) == Min(maxTokens, MaxTokenLimit)

\* Math.max(4096, Math.min(maxTokens, 128000))
ClampTokens(maxTokens) == Max(MinTokenLimit, Min(maxTokens, MaxTokenLimit))

\* a.toLowerCase() === b.toLowerCase()
EqualsLowerCase(a, b) ==
    Len(a) = Len(b) /\ \A k \in 1..Len(a) : LowerCaseCharAt(a, k) = LowerCaseCharAt(b, k)

\* the parameters of a tool declared without a schema
DefaultParameters == [type |-> "object"]

\* lines 243-268: one tool declaration in the form of the backend shape
convertTool(tool, useResponsesAPI) ==
    IF Get(tool, "type", "") = "function" /\ ~useResponsesAPI THEN tool
    ELSE IF useResponsesAPI
    THEN [type |-> "function",
          name |-> IF Get(tool, "name", "") # "" THEN tool.name
                   ELSE IF Has(tool, "function") THEN tool.function.name ELSE "",
          description |-> IF Get(tool, "description", "") # "" THEN tool.description
                          ELSE IF Has(tool, "function") THEN tool.function.description ELSE "",
          parameters |-> IF Has(tool, "input_schema") THEN tool.input_schema
                         ELSE IF Has(tool, "function") THEN tool.function.parameters
                         ELSE DefaultParameters]
    ELSE [type |-> "function",
          function |-> [name |-> Get(tool, "name", ""),
                        description |-> Get(tool, "description", ""),
                        parameters |-> Get(tool, "input_schema", DefaultParameters)]]

convertTools(claudeTools, useResponsesAPI) ==
    [k \in DOMAIN claudeTools |-> convertTool(claudeTools[k], useResponsesAPI)]

\* the test that takes a router alone for a reason to apply the directive
shouldApplyReasoningRouterAlone(modelName, config) ==
    LET targetModel == Get(config, "reasoningModel", "")
    IN  \/ targetModel # "" /\ EqualsLowerCase(modelName, targetModel)
        \/ config.router # ""
        \/ targetModel = "" /\ ModelIncludes(modelName, "gpt-5")

\* lines 312-316
shouldApplyReasoning(modelName, config) ==
    LET targetModel == Get(config, "reasoningModel", "")
    IN  \/ targetModel # "" /\ (EqualsLowerCase(modelName, targetModel) \/ config.router # "")
        \/ targetModel = "" /\ ModelIncludes(modelName, "gpt-5")

\* lines 310-324: the reasoning directive, nested or flat by shape
WithReasoning(request, config, useResponsesAPI) ==
    LET reasoningEffort == Get(config, "reasoningEffort", "")
    IN  IF reasoningEffort # "" /\ shouldApplyReasoning(request.model, config)
        THEN IF useResponsesAPI
             THEN With(request, "reasoning", [effort |-> reasoningEffort])
             ELSE With(request, "reasoning_effort", reasoningEffort)
        ELSE request

buildOpenAIRequest(req, config, useResponsesAPI) ==
    LET maxTokens == IF Has(req, "max_tokens") /\ req.max_tokens # 0
                     THEN req.max_tokens ELSE DefaultMaxTokens
        converted == convertMessages(req.messages, req, useResponsesAPI)
        messages == IF useResponsesAPI
                    THEN MapSeq(converted, LAMBDA msg :
                            IF Has(msg.content, "null")
                            THEN With(msg, "content", [str |-> <<>>]) ELSE msg)
                    ELSE converted
        base == [model |-> getModelName(req.model, config),
                 stream |-> Has(req, "stream") /\ req.stream]
        shaped == IF useResponsesAPI
                  THEN With(With(base, "input", messages),
                            "max_output_tokens", ClampTokens(maxTokens))
                  ELSE With(With(base, "messages", messages),
                            "max_completion_tokens", ClampTokens(maxTokens))
        tooled == IF Has(req, "tools") /\ req.tools # <<>>
                  THEN With(shaped, "tools", convertTools(req.tools, useResponsesAPI))
                  ELSE shaped
    IN  WithReasoning(tooled, config, useResponsesAPI)

(***************************************************************************)
(* Content model translator, reverse direction (non-streaming).            *)
(* Texts of backend replies are strings.                                   *)
(***************************************************************************)
\* JSON.parse(args) whose failure is handed on in place of the input
ParseArgumentsUncaught(args) ==
    LET parsed == JSONParse(args)
    IN  IF parsed.ok THEN parsed.value ELSE [error |-> "SyntaxError"]

\* JSON.parse(args) with the catch that substitutes {}
ParseArguments(args) ==
    LET parsed == JSONParse(args) IN IF parsed.ok THEN parsed.value ELSE EmptyObject

stopReasonMap(finishReason) ==
    CASE finishReason = "stop"           -> "end_turn"
      [] finishReason = "length"         -> "max_tokens"
      [] finishReason = "tool_calls"     -> "tool_use"
      [] finishReason = "content_filter" -> "end_turn"
      [] OTHER                           -> "end_turn"

\* a || b || 0 on token counters
FirstTruthy(a, b) == IF a # 0 THEN a ELSE b

pushToolUse(id, name, args) ==
    [type |-> "tool_use", id |-> id, name |-> name, input |-> ParseArguments(args)]

\* <<>> stands for null; otherwise the one extracted call
extractToolCall(item) ==
    LET type == Get(item, "type", "")
        fn == Get(item, "function", EmptyObject)
        name == IF Get(item, "name", "") # "" THEN item.name
                ELSE IF Get(item, "tool_name", "") # "" THEN item.tool_name
                ELSE Get(fn, "name", "")
        args == IF Get(item, "arguments", "") # "" THEN item.arguments
                ELSE IF Get(item, "tool_arguments", "") # "" THEN item.tool_arguments
                ELSE IF Get(fn, "arguments", "") # "" THEN fn.arguments
                ELSE "{}"
    IN  IF type \in {"tool_call", "function_call"}
        THEN <<[id |-> Get(item, "id", ""), name |-> name, args |-> args]>>
        ELSE IF type = "tool" /\ Get(item, "name", "") # ""
        THEN <<[id |-> Get(item, "id", ""), name |-> item.name,
                args |-> IF Get(item, "arguments", "") # "" THEN item.arguments
                         ELSE IF Get(item, "input", "") # "" THEN item.input ELSE "{}"]>>
        ELSE <<>>

ToolUsesOf(item) ==
    MapSeq(extractToolCall(item), LAMBDA c : pushToolUse(c.id, c.name, c.args))

\* the text parts one output item contributes
OutputItemTexts(item) ==
    IF Get(item, "type", "") # "message" \/ ~Has(item, "content") THEN <<>>
    ELSE IF Has(item.content, "str") THEN <<item.content.str>>
    ELSE MapSeq(SelectSeq(item.content.blocks,
                          LAMBDA b : Get(b, "type", "") \in {"output_text", "text"}),
                LAMBDA b : Get(b, "text", ""))

\* the tool uses one output item contributes
OutputItemToolUses(item) ==
    IF Get(item, "type", "") = "message"
    THEN (IF Has(item, "content") /\ Has(item.content, "blocks")
          THEN Concat(MapSeq(item.content.blocks, ToolUsesOf))
          ELSE <<>>)
    ELSE ToolUsesOf(item)

RECURSIVE JoinStrings(_)
JoinStrings(parts) == IF parts = <<>> THEN "" ELSE Head(parts) \o JoinStrings(Tail(parts))

convertResponse(openaiRes, model) ==
    LET usage == Get(openaiRes, "usage", EmptyObject)
        id == IF Get(openaiRes, "id", "") # "" THEN openaiRes.id ELSE "msg_now"
    IN
    IF Has(openaiRes, "choices") /\ openaiRes.choices # <<>> THEN
        LET choice == openaiRes.choices[1]
            message == Get(choice, "message", EmptyObject)
            text == IF Get(message, "content", "") # ""
                    THEN <<[type |-> "text", text |-> message.content]>> ELSE <<>>
            tools == MapSeq(Get(message, "tool_calls", <<>>), LAMBDA tc :
                        [type |-> "tool_use", id |-> Get(tc, "id", ""),
                         name |-> Get(Get(tc, "function", EmptyObject), "name", ""),
                         input |-> ParseArguments(
                             IF Get(Get(tc, "function", EmptyObject), "arguments", "") # ""
                             THEN tc.function.arguments ELSE "{}")])
            finishReason == IF Get(choice, "finish_reason", "") # ""
                            THEN choice.finish_reason ELSE "stop"
        IN [id |-> id, type |-> "message", role |-> "assistant",
            content |-> text \o tools, model |-> model,
            stop_reason |-> stopReasonMap(finishReason),
            usage |-> [input_tokens |-> FirstTruthy(Get(usage, "prompt_tokens", 0),
                                                    Get(usage, "input_tokens", 0)),
                       output_tokens |-> FirstTruthy(Get(usage, "completion_tokens", 0),
                                                     Get(usage, "output_tokens", 0))]]
    ELSE
        LET output == Get(openaiRes, "output", <<>>)
            textParts == (IF Has(openaiRes, "output_text") THEN <<openaiRes.output_text>>
                                                          ELSE <<>>)
                         \o Concat(MapSeq(output, OutputItemTexts))
            toolUses == Concat(MapSeq(output, OutputItemToolUses))
        IN [id |-> id, type |-> "message", role |-> "assistant",
            content |-> (IF textParts # <<>>
                         THEN <<[type |-> "text", text |-> JoinStrings(textParts)]>>
                         ELSE <<>>) \o toolUses,
            model |-> model,
            stop_reason |-> "end_turn",
            usage |-> [input_tokens |-> IF Has(usage, "input_tokens") THEN usage.input_tokens
                                        ELSE Get(usage, "prompt_tokens", 0),
                       output_tokens |-> IF Has(usage, "output_tokens") THEN usage.output_tokens
                                         ELSE Get(usage, "completion_tokens", 0)]]

(***************************************************************************)
(* The client's event-stream protocol: what sseEvent is called with.       *)
(***************************************************************************)
MessageStart(model) == [type |-> "message_start", model |-> model]
ContentBlockStart(index, block) ==
    [type |-> "content_block_start", index |-> index, content_block |-> block]
ContentBlockDelta(index, delta) ==
    [type |-> "content_block_delta", index |-> index, delta |-> delta]
ContentBlockStop(index) == [type |-> "content_block_stop", index |-> index]
MessageDelta(stopReason, outputTokens) ==
    [type |-> "message_delta", stop_reason |-> stopReason, output_tokens |-> outputTokens]
MessageStop == [type |-> "message_stop"]

EmptyTextBlock == [type |-> "text", text |-> ""]
TextDelta(text) == [type |-> "text_delta", text |-> text]
InputJsonDelta(json) == [type |-> "input_json_delta", partial_json |-> json]
ToolUseBlock(id, name) ==
    [type |-> "tool_use", id |-> id, name |-> name, input |-> EmptyObject]

\* the error block left open before the close sequence
ErrorBlockEventsUnclosed(message) ==
    << ContentBlockStart(0, EmptyTextBlock),
       ContentBlockDelta(0, TextDelta(message)),
       MessageDelta("end_turn", 0),
       MessageStop >>

\* the error block followed by the close sequence
ErrorBlockEvents(message) ==
    << ContentBlockStart(0, EmptyTextBlock),
       ContentBlockDelta(0, TextDelta(message)),
       ContentBlockStop(0),
       MessageDelta("end_turn", 0),
       MessageStop >>

(***************************************************************************)
(* Streaming reassembler, native relay: the 'data' and 'end' handlers of   *)
(* handleStreaming.  The closure state is the record                       *)
(*   textBlockStarted, currentBlockIndex, toolCalls (a Map keyed by the    *)
(*   backend's tool-call index), toolBlocksStarted (a Set, kept in         *)
(*   insertion order, which is the order its iteration visits),            *)
(*   finishReason, outputTokens,                                           *)
(* and out, the events written.                                            *)
(*                                                                         *)
(* A line of the backend stream is either skipped by the handler (not a    *)
(* "data: " line, "[DONE]", unparseable JSON, no choices) or a chunk       *)
(*   content (delta.content, "" when absent), tool_calls (a sequence of    *)
(*   index, id, name, arguments with "" for an absent field and 0 for an   *)
(*   absent index), finish_reason ("" when absent), usage (the             *)
(*   completion_tokens, 0 when absent).                                    *)
(* A line is handled once its newline has arrived, whatever the chunk      *)
(* boundaries; what follows the last newline stays in the buffer and is    *)
(* never handled, like a skipped line.                                     *)
(***************************************************************************)
InitialRelay ==
    [textBlockStarted |-> FALSE, currentBlockIndex |-> 0,
     toolCalls |-> <<>>, toolBlocksStarted |-> <<>>,
     finishReason |-> "end_turn", outputTokens |-> 0]

\* the mapping without its branch for 'length'
MapFinishReasonNoLength(s, line) ==
    IF line.finish_reason = "" THEN s
    ELSE [s EXCEPT !.finishReason =
             IF line.finish_reason = "tool_calls" THEN "tool_use" ELSE "end_turn"]

\* lines 798-802
MapFinishReason(s, line) ==
    IF line.finish_reason = "" THEN s
    ELSE [s EXCEPT !.finishReason =
             IF line.finish_reason = "tool_calls" THEN "tool_use"
             ELSE IF line.finish_reason = "length" THEN "max_tokens"
             ELSE "end_turn"]

\* lines 805-819
HandleTextContent(s, line) ==
    IF line.content = "" THEN s
    ELSE [s EXCEPT
            !.out = @ \o (IF ~s.textBlockStarted
                          THEN <<ContentBlockStart(s.currentBlockIndex, EmptyTextBlock)>>
                          ELSE <<>>)
                      \o <<ContentBlockDelta(s.currentBlockIndex, TextDelta(line.content))>>,
            !.textBlockStarted = TRUE]

\* the tool-call branch that leaves an open text block open
CloseTextBlockNever(s) == s

\* lines 826-830
CloseTextBlock(s) ==
    IF s.textBlockStarted /\ s.toolBlocksStarted = <<>>
    THEN [s EXCEPT !.out = Append(@, ContentBlockStop(s.currentBlockIndex)),
                   !.currentBlockIndex = @ + 1,
                   !.textBlockStarted = FALSE]
    ELSE s

\* the loop body with the argument delta written whether or not the block started
HandleToolCallUnguardedDelta(s, tc) ==
    LET tcIndex == tc.index
        blockIndex == s.currentBlockIndex + tcIndex
        known == IF tcIndex \in DOMAIN s.toolCalls
                 THEN s.toolCalls[tcIndex]
                 ELSE [id |-> tc.id, name |-> "", arguments |-> ""]
        toolCall == [id |-> IF tc.id # "" THEN tc.id ELSE known.id,
                     name |-> IF tc.name # "" THEN tc.name ELSE known.name,
                     arguments |-> known.arguments \o tc.arguments]
        start == blockIndex \notin Range(s.toolBlocksStarted) /\ toolCall.name # ""
    IN [s EXCEPT
          !.toolCalls = (tcIndex :> toolCall) @@ @,
          !.toolBlocksStarted = IF start THEN Append(@, blockIndex) ELSE @,
          !.out = @ \o (IF start
                        THEN <<ContentBlockStart(blockIndex,
                                                 ToolUseBlock(toolCall.id, toolCall.name))>>
                        ELSE <<>>)
                    \o (IF tc.arguments # ""
                        THEN <<ContentBlockDelta(blockIndex, InputJsonDelta(tc.arguments))>>
                        ELSE <<>>)]

\* lines 833-867: one iteration of the loop over delta.tool_calls
HandleToolCall(s, tc) ==
    LET tcIndex == tc.index
        blockIndex == s.currentBlockIndex + tcIndex
        known == IF tcIndex \in DOMAIN s.toolCalls
                 THEN s.toolCalls[tcIndex]
                 ELSE [id |-> tc.id, name |-> "", arguments |-> ""]
        toolCall == [id |-> IF tc.id # "" THEN tc.id ELSE known.id,
                     name |-> IF tc.name # "" THEN tc.name ELSE known.name,
                     arguments |-> known.arguments \o tc.arguments]
        start == blockIndex \notin Range(s.toolBlocksStarted) /\ toolCall.name # ""
        started == IF start THEN Append(s.toolBlocksStarted, blockIndex)
                            ELSE s.toolBlocksStarted
    IN [s EXCEPT
          !.toolCalls = (tcIndex :> toolCall) @@ @,
          !.toolBlocksStarted = started,
          !.out = @ \o (IF start
                        THEN <<ContentBlockStart(blockIndex,
                                                 ToolUseBlock(toolCall.id, toolCall.name))>>
                        ELSE <<>>)
                    \o (IF tc.arguments # "" /\ blockIndex \in Range(started)
                        THEN <<ContentBlockDelta(blockIndex, InputJsonDelta(tc.arguments))>>
                        ELSE <<>>)]

RECURSIVE HandleToolCalls(_, _)
HandleToolCalls(s, tcs) ==
    IF tcs = <<>> THEN s ELSE HandleToolCalls(HandleToolCall(s, Head(tcs)), Tail(tcs))

\* lines 872-874
HandleUsage(s, line) ==
    IF line.usage # 0 THEN [s EXCEPT !.outputTokens = line.usage] ELSE s

\* lines 784-878: the body of the loop over the lines of a chunk
ProcessLine(s, line) ==
    IF Has(line, "skip") THEN s
    ELSE LET s1 == HandleTextContent(MapFinishReason(s, line), line)
             s2 == IF line.tool_calls # <<>>
                   THEN HandleToolCalls(CloseTextBlock(s1), line.tool_calls)
                   ELSE s1
         IN HandleUsage(s2, line)

RECURSIVE ProcessLines(_, _)
ProcessLines(s, lines) ==
    IF lines = <<>> THEN s ELSE ProcessLines(ProcessLine(s, Head(lines)), Tail(lines))

\* the 'end' handler writing message_delta before it closes the tool blocks
EndEventsDeltaEarly(s) ==
    (IF s.textBlockStarted /\ s.currentBlockIndex \notin Range(s.toolBlocksStarted)
     THEN <<ContentBlockStop(s.currentBlockIndex)>> ELSE <<>>)
    \o <<MessageDelta(s.finishReason, s.outputTokens)>>
    \o MapSeq(s.toolBlocksStarted, ContentBlockStop)
    \o (IF ~s.textBlockStarted /\ s.toolBlocksStarted = <<>>
        THEN <<ContentBlockStart(0, EmptyTextBlock), ContentBlockStop(0)>> ELSE <<>>)
    \o <<MessageStop>>

\* lines 881-908: the events the 'end' handler writes
EndEvents(s) ==
    (IF s.textBlockStarted /\ s.currentBlockIndex \notin Range(s.toolBlocksStarted)
     THEN <<ContentBlockStop(s.currentBlockIndex)>> ELSE <<>>)
    \o MapSeq(s.toolBlocksStarted, ContentBlockStop)
    \o (IF ~s.textBlockStarted /\ s.toolBlocksStarted = <<>>
        THEN <<ContentBlockStart(0, EmptyTextBlock), ContentBlockStop(0)>> ELSE <<>>)
    \o <<MessageDelta(s.finishReason, s.outputTokens), MessageStop>>

(***************************************************************************)
(* Streaming reassembler, synthesized stream: the events                   *)
(* handleStreamingFromNonStreaming writes for a reverse-mapped response.   *)
(***************************************************************************)
\* lines 1004-1036: the events of one block at the running index; a block
\* that is neither text nor tool_use writes nothing and takes no index
RECURSIVE BlockEvents(_, _)
BlockEvents(content, index) ==
    IF content = <<>> THEN <<>>
    ELSE LET block == Head(content) IN
         IF block.type = "text"
         THEN << ContentBlockStart(index, EmptyTextBlock),
                 ContentBlockDelta(index, TextDelta(block.text)),
                 ContentBlockStop(index) >> \o BlockEvents(Tail(content), index + 1)
         ELSE IF block.type = "tool_use"
         THEN << ContentBlockStart(index, ToolUseBlock(block.id, block.name)),
                 ContentBlockDelta(index, InputJsonDelta(JSONStringify(block.input))),
                 ContentBlockStop(index) >> \o BlockEvents(Tail(content), index + 1)
         ELSE BlockEvents(Tail(content), index)

\* the events with message_delta written before the blocks
SynthesizedEventsDeltaFirst(response) ==
    << MessageDelta(IF response.stop_reason # "" THEN response.stop_reason ELSE "end_turn",
                    response.usage.output_tokens) >>
    \o (IF response.content = <<>>
        THEN <<ContentBlockStart(0, EmptyTextBlock), ContentBlockStop(0)>>
        ELSE BlockEvents(response.content, 0))
    \o << MessageStop >>

\* lines 992-1045
SynthesizedEvents(response) ==
    (IF response.content = <<>>
     THEN <<ContentBlockStart(0, EmptyTextBlock), ContentBlockStop(0)>>
     ELSE BlockEvents(response.content, 0))
    \o << MessageDelta(IF response.stop_reason # "" THEN response.stop_reason ELSE "end_turn",
                       response.usage.output_tokens),
          MessageStop >>

(***************************************************************************)
(* Inputs: configurations, client requests, backend replies.               *)
(***************************************************************************)
ApiVersions == {"2024-02-01", "2024-08-01-preview", "2025-04-01-preview"}

Configs ==
    [router : {"", "model-router"},
     apiVersion : ApiVersions,
     deployments : {[opus |-> "gpt-5", sonnet |-> "", haiku |-> "gpt-4o-mini"]}]

Models == {"claude-haiku-x"}

PlainMessages == << [role |-> "user", content |-> [str |-> <<"hi">>]] >>

ToolMessages ==
    << [role |-> "user", content |-> [str |-> <<"list">>]],
       [role |-> "assistant",
        content |-> [blocks |-> << [type |-> "text", text |-> <<"ok">>],
                                   [type |-> "tool_use", id |-> "toolu_1", name |-> "ls",
                                    input |-> PathObject] >>]],
       [role |-> "user",
        content |-> [blocks |-> << [type |-> "tool_result", tool_use_id |-> "toolu_1",
                                    content |-> [str |-> <<"a.txt">>],
                                    is_error |-> FALSE] >>]] >>

\* requested max_tokens values: negative, zero, below, at and above both limits
MaxTokensInputs == {-5, 0, 1, 4095, 4096, 8000, 128000, 128001, 999999}

\* the optional fields of a request: absent, or present with each value
OptionalField(f, values) == {EmptyObject} \cup {(f :> v) : v \in values}

RequestsWith(maxTokens) ==
    { [model |-> m, messages |-> msgs] @@ mt @@ st :
        m \in Models, msgs \in {PlainMessages, ToolMessages},
        mt \in OptionalField("max_tokens", maxTokens),
        st \in OptionalField("stream", {TRUE}) }

Requests == RequestsWith(MaxTokensInputs)

\* statuses a backend answers with
Statuses == {200, 400, 404, 429, 500}

ErrorBody == "{\"error\":\"backend\"}"

\* bodies of 200 replies: raw is a body JSON.parse rejects, json the parsed body
Bodies ==
    { [raw |-> "<html>"],
      [json |-> [id |-> "chatcmpl-1",
                 choices |-> << [message |-> [content |-> "hello"],
                                 finish_reason |-> "stop"] >>,
                 usage |-> [prompt_tokens |-> 3, completion_tokens |-> 5]]],
      [json |-> [choices |-> << [message |-> [content |-> "run",
                                              tool_calls |-> << [id |-> "call_1",
                                                  function |-> [name |-> "ls",
                                                                arguments |-> "{\"path\":\"a\"}"]] >>],
                                 finish_reason |-> "tool_calls"] >>]],
      [json |-> [choices |-> << [message |-> EmptyObject, finish_reason |-> "length"] >>]],
      [json |-> [id |-> "resp_1", output_text |-> "hello",
                 usage |-> [input_tokens |-> 3, output_tokens |-> 5]]],
      [json |-> [output |-> << [type |-> "message",
                                content |-> [blocks |-> << [type |-> "output_text",
                                                            text |-> "hi"] >>]],
                               [type |-> "function_call", id |-> "fc_1", name |-> "ls",
                                arguments |-> "{bad"] >>]],
      [json |-> [output |-> <<>>]] }

\* the message of the SyntaxError JSON.parse throws, of a transport error
ParseErrorMessage == "Unexpected token"
TransportErrors == {"ECONNRESET"}

\* tool-call deltas of the backend stream
ToolCallDeltas ==
    { [index |-> 0, id |-> "call_0", name |-> "ls", arguments |-> ""],
      [index |-> 0, id |-> "", name |-> "", arguments |-> "{\"p"],
      [index |-> 1, id |-> "call_1", name |-> "cat", arguments |-> "{}"],
      [index |-> 1, id |-> "", name |-> "", arguments |-> "x"] }

Chunk(content, toolCalls, finishReason, usage) ==
    [content |-> content, tool_calls |-> toolCalls,
     finish_reason |-> finishReason, usage |-> usage]

\* the lines a backend stream is made of
Lines ==
    { [skip |-> TRUE], Chunk("t", <<>>, "", 0) }
    \cup { Chunk("", <<tc>>, "", 0) : tc \in ToolCallDeltas }
    \cup { Chunk("", << [index |-> 0, id |-> "call_0", name |-> "ls", arguments |-> ""],
                        [index |-> 1, id |-> "call_1", name |-> "cat", arguments |-> "{}"] >>,
                 "", 0),
           Chunk("t", << [index |-> 0, id |-> "call_0", name |-> "ls", arguments |-> "{}"] >>,
                 "", 0),
           Chunk("", <<>>, "tool_calls", 0),
           Chunk("", <<>>, "length", 7) }

\* the lines of one 'data' event
LineBatches == UNION { [1..n -> Lines] : n \in 1..MaxLinesPerChunk }

(***************************************************************************)
(* The request handler.                                                    *)
(***************************************************************************)
NoResponse == [statusCode |-> 0, headersSent |-> FALSE, ended |-> FALSE, body |-> EmptyObject]

\* res.writeHead(status, ...)
WriteHead(r, status) == [r EXCEPT !.statusCode = status, !.headersSent = TRUE]

\* res.end(body): the head is flushed with the default status 200 if none was written
End(r, body) ==
    [r EXCEPT !.statusCode = IF r.headersSent THEN @ ELSE 200,
              !.headersSent = TRUE, !.ended = TRUE, !.body = body]

\* res.end()
EndStream(r) == [r EXCEPT !.ended = TRUE]

\* nothing arrived from the backend yet
NothingHeard == [statusCode |-> 0, lines |-> <<>>]

\* the handler of one of these requests, about to run
HandlerIdle(requests) ==
    /\ claudeReq \in requests
    /\ pc = "idle"
    /\ mode = ""
    /\ openaiReq = EmptyObject
    /\ optionsList = <<>>
    /\ i = 0
    /\ lastError = ""
    /\ outcomes = <<>>
    /\ result = EmptyObject
    /\ sent = <<>>
    /\ res = NoResponse
    /\ events = <<>>
    /\ relay = InitialRelay
    /\ nLines = 0
    /\ heard = NothingHeard

InitWith(requests) == cfg \in Configs /\ HandlerIdle(requests)

\* lines 648-659: the payload adapted to the candidate's endpoint type
AdaptPayload(options, payload) ==
    IF IsChatCompletionsPath(options) /\ Has(payload, "input")
    THEN LET moved == With(Without(payload, "input"), "messages", payload.input)
         IN IF Has(payload, "max_output_tokens") /\ payload.max_output_tokens # 0
            THEN With(Without(moved, "max_output_tokens"),
                      "max_completion_tokens", payload.max_output_tokens)
            ELSE moved
    ELSE payload

\* the caller's payload after an adaptation made on the payload itself
PayloadAdaptedInPlace(options, payload) == AdaptPayload(options, payload)

\* lines 649-652: the caller's payload after the adaptation for a candidate,
\* which is made on a copy ({ ...payload })
PayloadAfterAttempt(options, payload) == payload

\* requestJson(options, currentPayload) for candidate k: the request is written
Attempt(list, k, payload) ==
    [index |-> k, options |-> list[k], payload |-> AdaptPayload(list[k], payload)]

\* the request the client sends to the translation path
MessagesPost == [method |-> "POST", url |-> "/v1/messages"]

\* url.includes(part)
UrlIncludes(url, part) == IncludesBy(url, part, CharAt)

\* the routing that lets every method through to the translation path
RouteAnyMethod(r) ==
    IF r.method = "OPTIONS" THEN "preflight"
    ELSE IF r.url = "/health" THEN "health"
    ELSE IF \E marker \in {"auth", "token", "telemetry", "event_logging"} :
               UrlIncludes(r.url, marker)
    THEN "stub"
    ELSE IF ~UrlIncludes(r.url, "/messages") THEN "not_found"
    ELSE "messages"

\* lines 482-508: the branch of the request handler a request takes
Route(r) ==
    IF r.method = "OPTIONS" THEN "preflight"
    ELSE IF r.url = "/health" THEN "health"
    ELSE IF \E marker \in {"auth", "token", "telemetry", "event_logging"} :
               UrlIncludes(r.url, marker)
    THEN "stub"
    ELSE IF r.method # "POST" \/ ~UrlIncludes(r.url, "/messages") THEN "not_found"
    ELSE "messages"

\* lines 482-508: the request is answered without its body being read
Answer ==
    /\ pc = "idle"
    /\ Route(httpReq) # "messages"
    /\ res' = CASE Route(httpReq) = "preflight" -> EndStream(WriteHead(res, 204))
                [] Route(httpReq) = "health" ->
                      End(WriteHead(res, 200), [json |-> [status |-> "ok", provider |-> "azure"]])
                [] Route(httpReq) = "stub" ->
                      End(WriteHead(res, 200), [json |-> [status |-> "ok"]])
                [] OTHER ->
                      End(WriteHead(res, 404),
                          [json |-> [error |-> "Not found: " \o httpReq.url]])
    /\ pc' = "done"
    /\ UNCHANGED <<updater, cfg, httpReq, store, claudeReq, mode, openaiReq, optionsList, i, lastError,
                   outcomes, result, sent, events, relay, nLines>>

\* the opening of a stream that already starts a text block
OpenStreamWithBlock(model) == <<MessageStart(model), ContentBlockStart(0, EmptyTextBlock)>>

\* lines 724-738, 945-958: what both streaming handlers write before the
\* backend is asked
OpenStream(model) == <<MessageStart(model)>>

\* the shape selection without the tool-history test
UseResponsesAPIIgnoringTools(req, config) == shouldUseResponsesAPI(config)

\* lines 525-526
UseResponsesAPI(req, config) == shouldUseResponsesAPI(config) /\ ~hasToolUsage(req.messages)

\* the payload handed on with the client's stream flag
WholeResponseAsRequested(built, useResponsesAPI) == built

\* lines 532-535: an alternate-shape request asks for the whole response
WholeResponse(built, useResponsesAPI) ==
    IF useResponsesAPI THEN [built EXCEPT !.stream = FALSE] ELSE built

\* lines 516-598 with the synchronous start of the handler chosen: the payload
\* and the candidate list are built, the event stream is opened for a
\* streaming request, and the first backend request is written
Serve ==
    /\ pc = "idle"
    /\ Route(httpReq) = "messages"
    /\ ~Has(claudeReq, "raw")
    /\ LET deployment == getDeployment(claudeReq.model, cfg)
           wantsStream == Has(claudeReq, "stream") /\ claudeReq.stream
           useResponsesAPI == UseResponsesAPI(claudeReq, cfg)
           built == buildOpenAIRequest(claudeReq, cfg, useResponsesAPI)
           payload == WholeResponse(built, useResponsesAPI)
       IN /\ optionsList' = CandidateUrls(cfg, deployment, useResponsesAPI)
          /\ openaiReq' = IF wantsStream /\ ~useResponsesAPI THEN payload
                          ELSE PayloadAfterAttempt(optionsList'[1], payload)
          /\ mode' = IF ~wantsStream THEN "nonstream"
                     ELSE IF useResponsesAPI THEN "synth" ELSE "native"
          /\ IF wantsStream
             THEN /\ res' = WriteHead(res, 200)
                  /\ events' = OpenStream(claudeReq.model)
             ELSE UNCHANGED <<res, events>>
          /\ IF wantsStream /\ ~useResponsesAPI
             THEN /\ sent' = <<[index |-> 1, options |-> optionsList'[1], payload |-> payload]>>
                  /\ pc' = "await_response"
                  /\ i' = 0
             ELSE /\ sent' = <<Attempt(optionsList', 1, payload)>>
                  /\ pc' = "dispatch"
                  /\ i' = 1
    /\ UNCHANGED <<updater, cfg, httpReq, store, claudeReq, lastError, outcomes, result, relay, nLines>>

(***************************************************************************)
(* Request dispatcher with fallback, and the handlers awaiting it.         *)
(***************************************************************************)
\* lines 1081-1089: handleNonStreaming's catch
NonStreamingCatch(message) ==
    IF res.ended THEN res
    ELSE End(IF res.headersSent THEN res ELSE WriteHead(res, 500), [error |-> message])

\* the reply that wraps the body of a non-200 result in an error object
NonStreamingReplyWrapped(statusCode, body) ==
    IF statusCode # 200
    THEN End(WriteHead(res, IF statusCode # 0 THEN statusCode ELSE 500), [error |-> body])
    ELSE IF Has(body, "json")
    THEN End(WriteHead(res, 200), [json |-> convertResponse(body.json, claudeReq.model)])
    ELSE NonStreamingCatch(ParseErrorMessage)

\* lines 1064-1080: handleNonStreaming after the dispatcher returned; a body
\* JSON.parse rejects takes the handler to its catch
NonStreamingReply(statusCode, body) ==
    IF statusCode # 200
    THEN End(WriteHead(res, IF statusCode # 0 THEN statusCode ELSE 500), [raw |-> body])
    ELSE IF Has(body, "json")
    THEN End(WriteHead(res, 200), [json |-> convertResponse(body.json, claudeReq.model)])
    ELSE NonStreamingCatch(ParseErrorMessage)

\* lines 983-1050: the events handleStreamingFromNonStreaming writes after the
\* dispatcher returned
SynthesizedReply(statusCode, body) ==
    IF statusCode # 200 THEN ErrorBlockEvents("Error from Azure: " \o body)
    ELSE IF Has(body, "json")
    THEN SynthesizedEvents(convertResponse(body.json, claudeReq.model))
    ELSE ErrorBlockEvents("Error from Azure: " \o ParseErrorMessage)

\* line 692: the dispatcher returns the response of candidate i; the awaiting
\* handler continues with it
Returned(statusCode, body) ==
    /\ pc' = "done"
    /\ result' = [statusCode |-> statusCode, body |-> body, options |-> optionsList[i]]
    /\ IF mode = "nonstream"
       THEN /\ res' = NonStreamingReply(statusCode, body)
            /\ UNCHANGED events
       ELSE /\ events' = events \o SynthesizedReply(statusCode, body)
            /\ res' = EndStream(res)

\* the awaiting handler catches the dispatcher's failure
Thrown(message) ==
    /\ pc' = "failed"
    /\ IF mode = "nonstream"
       THEN /\ res' = NonStreamingCatch(message)
            /\ UNCHANGED events
       ELSE /\ events' = events \o ErrorBlockEvents("Error from Azure: " \o message)
            /\ res' = EndStream(res)

\* the retry test taking every status but 200 for a missing route
RetryStatusNot200(statusCode, k, n) == statusCode # 200 /\ k < n

\* the retry test with the last-candidate bound off by one
RetryStatusOffByOne(statusCode, k, n) == statusCode = 404 /\ k < n - 1

\* line 668: the dispatcher goes on to the next candidate after this response
RetryStatus(statusCode, k, n) == statusCode = 404 /\ k < n

\* line 695: the dispatcher goes on to the next candidate after a failed request
RetryError(k, n) == k < n

\* lines 665-692: requestJson resolved for candidate i
RequestJsonResolve(statusCode, body) ==
    /\ pc = "dispatch"
    /\ outcomes' = Append(outcomes, [statusCode |-> statusCode, body |-> body])
    /\ IF RetryStatus(statusCode, i, Len(optionsList))
       THEN /\ i' = i + 1
            /\ sent' = Append(sent, Attempt(optionsList, i + 1, openaiReq))
            /\ openaiReq' = PayloadAfterAttempt(optionsList[i + 1], openaiReq)
            /\ UNCHANGED <<pc, result, res, events>>
       ELSE /\ Returned(statusCode, body)
            /\ UNCHANGED <<i, sent, openaiReq>>
    /\ UNCHANGED <<updater, cfg, httpReq, store, claudeReq, mode, optionsList, lastError, relay, nLines>>

\* lines 693-702: requestJson rejected for candidate i
RequestJsonReject(err) ==
    /\ pc = "dispatch"
    /\ lastError' = err
    /\ outcomes' = Append(outcomes, [error |-> err])
    /\ IF RetryError(i, Len(optionsList))
       THEN /\ i' = i + 1
            /\ sent' = Append(sent, Attempt(optionsList, i + 1, openaiReq))
            /\ openaiReq' = PayloadAfterAttempt(optionsList[i + 1], openaiReq)
            /\ UNCHANGED <<pc, res, events>>
       ELSE /\ Thrown(err)
            /\ UNCHANGED <<i, sent, openaiReq>>
    /\ UNCHANGED <<updater, cfg, httpReq, store, claudeReq, mode, optionsList, result, relay, nLines>>

(***************************************************************************)
(* Native stream relay: the callbacks of handleStreaming.                  *)
(***************************************************************************)
\* lines 742-771: the backend's response head arrived
AzureResponse(statusCode) ==
    /\ pc = "await_response"
    /\ pc' = IF statusCode # 200 THEN "error_body" ELSE "streaming"
    /\ UNCHANGED <<updater, cfg, httpReq, store, claudeReq, mode, openaiReq, optionsList, i, lastError,
                   outcomes, result, sent, res, events, relay, nLines>>

\* lines 747-769: the body of a non-200 response ended
AzureErrorEnd(errorBody) ==
    /\ pc = "error_body"
    /\ events' = events \o ErrorBlockEvents("Error from Azure: " \o errorBody)
    /\ res' = EndStream(res)
    /\ pc' = "done"
    /\ UNCHANGED <<updater, cfg, httpReq, store, claudeReq, mode, openaiReq, optionsList, i, lastError,
                   outcomes, result, sent, relay, nLines>>

\* lines 779-879: a chunk of the backend stream arrived, carrying these lines
AzureData(lines) ==
    /\ pc = "streaming"
    /\ nLines + Len(lines) <= MaxLines
    /\ LET s == ProcessLines(With(relay, "out", events), lines)
       IN /\ events' = s.out
          /\ relay' = Without(s, "out")
    /\ nLines' = nLines + Len(lines)
    /\ UNCHANGED <<updater, cfg, httpReq, store, claudeReq, pc, mode, openaiReq, optionsList, i, lastError,
                   outcomes, result, sent, res>>

\* lines 881-911: the backend stream ended
AzureEnd ==
    /\ pc = "streaming"
    /\ events' = events \o EndEvents(relay)
    /\ res' = EndStream(res)
    /\ pc' = "done"
    /\ UNCHANGED <<updater, cfg, httpReq, store, claudeReq, mode, openaiReq, optionsList, i, lastError,
                   outcomes, result, sent, relay, nLines>>

\* lines 913-917: the backend stream failed; the rejection reaches the server's
\* catch (lines 599-607), which finds the head sent and the response ended
AzureStreamError(err) ==
    /\ pc = "streaming"
    /\ lastError' = err
    /\ res' = EndStream(res)
    /\ pc' = "failed"
    /\ UNCHANGED <<updater, cfg, httpReq, store, claudeReq, mode, openaiReq, optionsList, i,
                   outcomes, result, sent, events, relay, nLines>>

\* lines 920-924: the backend request failed (DNS, connect, TLS)
AzureRequestError(err) ==
    /\ pc \in {"await_response", "error_body"}
    /\ lastError' = err
    /\ res' = EndStream(res)
    /\ pc' = "failed"
    /\ UNCHANGED <<updater, cfg, httpReq, store, claudeReq, mode, openaiReq, optionsList, i,
                   outcomes, result, sent, events, relay, nLines>>

(***************************************************************************)
(* Auto-updater.  The clock counts milliseconds; a revision is a commit     *)
(* hash, and the installation is a git checkout (localHead is its HEAD) or  *)
(* is none (localHead is "").  The cache file holds what saveCache wrote,   *)
(* as JSON text; "" is the file that does not exist.                        *)
(***************************************************************************)
CACHE_DURATION == 3600000

\* number of calls of checkForUpdates
MaxChecks == 3
\* the clock stops after this many cache durations
MaxHours == 4

Revisions == {"1a2b3c4d5e", "9f8e7d6c5b"}

\* sha.slice(0, 7)
ShortSha(sha) == IF Len(sha) > 7 THEN SubSeq(sha, 1, 7) ELSE sha

\* lines 22-37
getLocalSha(localHead) == IF localHead # "" THEN ShortSha(localHead) ELSE "unknown"

\* lines 39-48: null for a file that does not exist or is no JSON
loadCache(cacheFile) ==
    IF cacheFile = "" THEN [null |-> TRUE]
    ELSE LET parsed == JSONParse(cacheFile)
         IN  IF parsed.ok THEN parsed.value ELSE [null |-> TRUE]

\* lines 50-57: the text written to the cache file
saveCache(lastCheck, latestSha, currentSha) ==
    JSONStringify([lastCheck |-> [num |-> lastCheck],
                   latestSha |-> [str |-> latestSha],
                   currentSha |-> [str |-> currentSha]])

\* line 64
CacheIsFresh(cache, now) ==
    ~Has(cache, "null") /\ now - cache.lastCheck.num < CACHE_DURATION

\* lines 65-68: the answer from the cache
CachedAnswer(cache) ==
    IF cache.latestSha.str # cache.currentSha.str THEN "update" ELSE "none"

\* lines 89-91 and 97: the answer of a check that asked GitHub
RemoteAnswer(latestSha, currentSha) ==
    IF latestSha # currentSha /\ currentSha # "unknown" THEN "update" ELSE "none"

\* no check was made and no cache file exists
UpdaterStart(localHead, remoteHead) ==
    [cacheFile |-> "", now |-> 2 * CACHE_DURATION,
     localHead |-> localHead, remoteHead |-> remoteHead,
     answer |-> "", written |-> "", fetches |-> 0, checks |-> 0, updated |-> ""]

\* lines 59-98; fetch is how the request to GitHub ends when one is made.
\* answer is what the call returned, written the answer of the call that
\* wrote the cache file, fetches the number of requests to GitHub, updated
\* how doUpdate ended when it was the last operation
checkForUpdates(fetch) ==
    /\ updater.checks < MaxChecks
    /\ LET cache == loadCache(updater.cacheFile)
           latestSha == ShortSha(updater.remoteHead)
           currentSha == getLocalSha(updater.localHead)
       IN  updater' =
             IF CacheIsFresh(cache, updater.now)
             THEN [updater EXCEPT !.checks = @ + 1, !.updated = "", !.answer = CachedAnswer(cache)]
             ELSE IF fetch = "ok"
             THEN [updater EXCEPT !.checks = @ + 1, !.updated = "", !.fetches = @ + 1,
                                  !.cacheFile = saveCache(updater.now, latestSha, currentSha),
                                  !.answer = RemoteAnswer(latestSha, currentSha),
                                  !.written = RemoteAnswer(latestSha, currentSha)]
             ELSE [updater EXCEPT !.checks = @ + 1, !.updated = "", !.fetches = @ + 1, !.answer = "none"]
    /\ UNCHANGED <<cfg, httpReq, store, handlerVars, serverVars>>

\* lines 100-141; failsAt is the command that throws, if one does
doUpdate(failsAt) ==
    /\ updater' =
         IF updater.localHead = "" THEN [updater EXCEPT !.updated = "not a repository"]
         ELSE IF failsAt = "pull" THEN [updater EXCEPT !.updated = "failed"]
         ELSE IF failsAt = "build"
         THEN [updater EXCEPT !.updated = "failed", !.localHead = updater.remoteHead]
         ELSE [updater EXCEPT !.updated = "complete", !.localHead = updater.remoteHead,
                              !.cacheFile = saveCache(0, "", ""), !.written = ""]
    /\ updater' # updater
    /\ UNCHANGED <<cfg, httpReq, store, handlerVars, serverVars>>

\* time passes, half a cache duration at a time
Tick ==
    /\ updater.now + CACHE_DURATION \div 2 <= MaxHours * CACHE_DURATION
    /\ updater' = [updater EXCEPT !.now = @ + CACHE_DURATION \div 2, !.updated = ""]
    /\ UNCHANGED <<cfg, httpReq, store, handlerVars, serverVars>>

\* a commit is pushed to the main branch on GitHub
Push ==
    /\ \E sha \in Revisions \ {updater.remoteHead} :
          updater' = [updater EXCEPT !.remoteHead = sha, !.updated = ""]
    /\ UNCHANGED <<cfg, httpReq, store, handlerVars, serverVars>>

(***************************************************************************)
(* Specification.                                                          *)
(***************************************************************************)
\* a backend reply: a 200 with one of the bodies, or another status with an error body
Replies == { <<200, b>> : b \in Bodies } \cup { <<st, ErrorBody>> : st \in Statuses \ {200} }

\* one connection, and no request completed before
OneConnection ==
    /\ httpReq = MessagesPost
    /\ store = Get(cfg, "reasoningEffort", "")
    /\ conn = "a"
    /\ parked = EmptyObject
    /\ last = "none"
    /\ updater = UpdaterStart("", "1a2b3c4d5e")

Init == InitWith(Requests) /\ OneConnection

Next ==
    \/ Serve /\ UNCHANGED serverVars
    \/ \E r \in Replies : RequestJsonResolve(r[1], r[2]) /\ UNCHANGED serverVars
    \/ \E err \in TransportErrors : RequestJsonReject(err) /\ UNCHANGED serverVars
    \/ \E st \in Statuses : AzureResponse(st) /\ UNCHANGED serverVars
    \/ AzureErrorEnd(ErrorBody) /\ UNCHANGED serverVars
    \/ \E lines \in LineBatches : AzureData(lines) /\ UNCHANGED serverVars
    \/ AzureEnd /\ UNCHANGED serverVars
    \/ \E err \in TransportErrors : AzureStreamError(err) /\ UNCHANGED serverVars
    \/ \E err \in TransportErrors : AzureRequestError(err) /\ UNCHANGED serverVars

Spec == Init /\ [][Next]_vars

(***************************************************************************)
(* The endpoint resolver over model names and configurations: the handler  *)
(* resolves the deployment and builds the payload, and the dispatcher goes *)
(* through the candidates while the backend answers 404.                   *)
(***************************************************************************)
\* requested model names: each marker in lower, upper and mixed case, both
\* markers in one name, no marker, no name
ResolverModels ==
    { "claude-opus-4-1", "Claude-OPUS-4", "claude-3-5-haiku", "CLAUDE-HAIKU",
      "haiku-opus-mix", "claude-sonnet-4", "gpt-4o", "" }

\* each tier's deployment set or left out, with and without a router
ResolverConfigs ==
    [router : {"", "model-router"},
     apiVersion : {"2024-02-01", "2025-04-01-preview"},
     deployments : [opus : {"", "gpt-5"}, sonnet : {"", "gpt-4.1"},
                    haiku : {"", "gpt-4.1-mini"}]]

ResolverRequests ==
    { [model |-> m, messages |-> PlainMessages] @@ st :
        m \in ResolverModels, st \in OptionalField("stream", {TRUE}) }

ResolveInit ==
    /\ cfg \in ResolverConfigs
    /\ HandlerIdle(ResolverRequests)
    /\ OneConnection

ResolveNext ==
    \/ Serve /\ UNCHANGED serverVars
    \/ RequestJsonResolve(404, ErrorBody) /\ UNCHANGED serverVars

ResolveSpec == ResolveInit /\ [][ResolveNext]_vars

(***************************************************************************)
(* The finish indicator: replies and stream lines with every finish        *)
(* reason, known or not, and with none.                                    *)
(***************************************************************************)
FinishReasons == {"", "stop", "length", "tool_calls", "content_filter", "function_call"}

\* 200 replies in the choice-based layout, and one without a finish indicator
FinishBodies ==
    { [json |-> [choices |-> << [message |-> [content |-> "hello"]] @@ fr >>]] :
        fr \in OptionalField("finish_reason", FinishReasons) }
    \cup { [json |-> [output_text |-> "hello"]] }

FinishLines == { Chunk("t", <<>>, fr, 0) : fr \in FinishReasons }

FinishInit ==
    /\ cfg \in { c \in Configs : c.router = "" /\ c.apiVersion = "2024-02-01" }
    /\ HandlerIdle({ [model |-> "claude-haiku-x", messages |-> PlainMessages] @@ st :
                       st \in OptionalField("stream", {TRUE}) })
    /\ OneConnection

FinishNext ==
    \/ Serve /\ UNCHANGED serverVars
    \/ \E body \in FinishBodies : RequestJsonResolve(200, body) /\ UNCHANGED serverVars
    \/ /\ AzureResponse(200)
       /\ heard' = [heard EXCEPT !.statusCode = 200]
       /\ UNCHANGED <<conn, parked, last>>
    \/ \E line \in FinishLines :
          /\ AzureData(<<line>>)
          /\ heard' = [heard EXCEPT !.lines = Append(@, line)]
          /\ UNCHANGED <<conn, parked, last>>
    \/ AzureEnd /\ UNCHANGED serverVars

FinishSpec == FinishInit /\ [][FinishNext]_vars

(***************************************************************************)
(* Tool calls in the native stream: streams of text, of tool-call deltas   *)
(* with and without a name, for two backend indexes, in every order; what  *)
(* the backend sent is kept beside what the relay wrote.                   *)
(***************************************************************************)
ToolStreamInit ==
    /\ cfg \in { c \in Configs : c.router = "" /\ c.apiVersion = "2024-02-01" }
    /\ HandlerIdle({ [model |-> "claude-haiku-x", messages |-> msgs, stream |-> TRUE] :
                       msgs \in {PlainMessages, ToolMessages} })
    /\ OneConnection

ToolStreamNext ==
    \/ Serve /\ UNCHANGED serverVars
    \/ /\ AzureResponse(200)
       /\ heard' = [heard EXCEPT !.statusCode = 200]
       /\ UNCHANGED <<conn, parked, last>>
    \/ \E lines \in LineBatches :
          /\ AzureData(lines)
          /\ heard' = [heard EXCEPT !.lines = @ \o lines]
          /\ UNCHANGED <<conn, parked, last>>
    \/ AzureEnd /\ UNCHANGED serverVars

ToolStreamSpec == ToolStreamInit /\ [][ToolStreamNext]_vars

(***************************************************************************)
(* The reasoning-effort level: gateways created with and without a level   *)
(* and a reasoning model, while `claude-azure reasoning <level>` stores    *)
(* levels from another process.                                            *)
(***************************************************************************)
ReasoningLevels == {"low", "medium", "high", "extra_high"}

ReasoningConfigs ==
    { c @@ effort @@ target :
        c \in { k \in Configs : k.apiVersion \in {"2024-02-01", "2025-04-01-preview"} },
        effort \in OptionalField("reasoningEffort", {"low", "high"}),
        target \in OptionalField("reasoningModel", {"GPT-5"}) }

ReasoningRequests ==
    { [model |-> m, messages |-> PlainMessages] @@ st :
        m \in {"claude-opus-4-1", "claude-haiku-x"}, st \in OptionalField("stream", {TRUE}) }

\* config.ts lines 80-89, called by the reasoning subcommand
setReasoningEffort(level) ==
    /\ store' = level
    /\ UNCHANGED <<updater, cfg, httpReq, handlerVars, serverVars>>

ReasoningInit ==
    /\ cfg \in ReasoningConfigs
    /\ HandlerIdle(ReasoningRequests)
    /\ OneConnection

ReasoningNext ==
    \/ Serve /\ UNCHANGED serverVars
    \/ \E level \in ReasoningLevels : setReasoningEffort(level)

ReasoningSpec == ReasoningInit /\ [][ReasoningNext]_vars

(***************************************************************************)
(* The round trip of tool invocations: histories whose assistant message   *)
(* invokes one or two tools, with inputs that are empty, flat, nested, and *)
(* that hold quotes, backslashes, numbers, booleans, null and arrays; the  *)
(* backend replies with the tool calls it was sent.                        *)
(***************************************************************************)
ToolInputs ==
    { EmptyObject,
      PathObject,
      [path |-> [str |-> "say \"hi\""], limit |-> [num |-> 120]],
      [opts |-> [obj |-> [recursive |-> [bool |-> TRUE], depth |-> [null |-> TRUE]]]],
      [paths |-> [arr |-> <<[str |-> "a"], [str |-> "b\\c"]>>], skip |-> [arr |-> <<>>]] }

ToolUseBlocks ==
    { [type |-> "tool_use", id |-> id, name |-> name, input |-> input] :
        id \in {"toolu_1", "toolu_2"}, name \in {"ls", "cat"}, input \in ToolInputs }

\* a history whose assistant message holds these blocks
ToolHistory(blocks) ==
    << [role |-> "user", content |-> [str |-> <<"list">>]],
       [role |-> "assistant", content |-> [blocks |-> blocks]],
       [role |-> "user",
        content |-> [blocks |-> << [type |-> "tool_result", tool_use_id |-> "toolu_1",
                                    content |-> [str |-> <<"a.txt">>],
                                    is_error |-> FALSE] >>]] >>

RoundTripRequests ==
    { [model |-> "claude-haiku-x", messages |-> ToolHistory(text \o uses)] :
        text \in {<<>>, << [type |-> "text", text |-> <<"ok">>] >>},
        uses \in { <<b>> : b \in ToolUseBlocks }
                 \cup { <<a, b>> : a \in ToolUseBlocks, b \in ToolUseBlocks } }

\* the tool calls of the payload's assistant entries, in order
SentToolCalls(messages) ==
    Concat(MapSeq(SelectSeq(messages, LAMBDA m : Has(m, "tool_calls")),
                  LAMBDA m : m.tool_calls))

\* a reply in the choice-based layout that holds these tool calls
EchoBody(toolCalls) ==
    [json |-> [choices |-> << [message |-> [tool_calls |-> toolCalls],
                               finish_reason |-> "tool_calls"] >>]]

RoundTripInit ==
    /\ cfg \in Configs
    /\ HandlerIdle(RoundTripRequests)
    /\ OneConnection

RoundTripNext ==
    \/ Serve /\ UNCHANGED serverVars
    \/ /\ pc = "dispatch"
       /\ RequestJsonResolve(200, EchoBody(SentToolCalls(sent[Len(sent)].payload.messages)))
       /\ UNCHANGED serverVars

RoundTripSpec == RoundTripInit /\ [][RoundTripNext]_vars

(***************************************************************************)
(* Messages of text and image blocks only: one message, of the user or of  *)
(* the assistant, with one text, an empty text, two texts, a text and an   *)
(* inline image, an inline image alone, and a text with an image that is   *)
(* not inline.                                                             *)
(***************************************************************************)
InlineImage == [type |-> "image",
                source |-> [type |-> "base64", media_type |-> "image/jpeg", data |-> "QUJD"]]

LinkedImage == [type |-> "image",
                source |-> [type |-> "url", media_type |-> "", data |-> ""]]

ContentBlocks ==
    { << [type |-> "text", text |-> <<"hi">>] >>,
      << [type |-> "text", text |-> <<>>] >>,
      << [type |-> "text", text |-> <<"hi">>], [type |-> "text", text |-> <<"there">>] >>,
      << [type |-> "text", text |-> <<"look">>], InlineImage >>,
      << InlineImage >>,
      << [type |-> "text", text |-> <<"look">>], LinkedImage >> }

ContentRequests ==
    { [model |-> "claude-haiku-x",
       messages |-> << [role |-> role, content |-> [blocks |-> blocks]] >>] @@ st :
        role \in {"user", "assistant"}, blocks \in ContentBlocks,
        st \in OptionalField("stream", {TRUE}) }

ContentInit ==
    /\ cfg \in Configs
    /\ HandlerIdle(ContentRequests)
    /\ OneConnection

ContentNext == Serve /\ UNCHANGED serverVars

ContentSpec == ContentInit /\ [][ContentNext]_vars

(***************************************************************************)
(* The shape of every attempt: requests with and without tool declarations *)
(* under configurations with and without a reasoning effort, each tried on *)
(* the candidates of its list until one answers other than 404.            *)
(***************************************************************************)
\* a declaration in the client's form and one already in the nested form
DeclaredTools ==
    << [name |-> "ls", description |-> "list files",
        input_schema |-> [type |-> "object", required |-> "path"]],
       [type |-> "function",
        function |-> [name |-> "cat", description |-> "show a file",
                      parameters |-> [type |-> "object", required |-> "path"]]] >>

ShapeRequests ==
    { r @@ tools : r \in ReasoningRequests,
                   tools \in OptionalField("tools", {DeclaredTools}) }

ShapeInit ==
    /\ cfg \in ReasoningConfigs
    /\ HandlerIdle(ShapeRequests)
    /\ OneConnection

ShapeNext ==
    \/ Serve /\ UNCHANGED serverVars
    \/ \E statusCode \in {400, 404} :
          RequestJsonResolve(statusCode, ErrorBody) /\ UNCHANGED serverVars
    \/ \E err \in TransportErrors : RequestJsonReject(err) /\ UNCHANGED serverVars

ShapeSpec == ShapeInit /\ [][ShapeNext]_vars

(***************************************************************************)
(* The updater alone: installations that are a checkout of either revision *)
(* or no checkout, checks whose request to GitHub succeeds or fails,       *)
(* updates that complete or fail, pushes to the main branch, and the clock *)
(* going past the cache duration.                                          *)
(***************************************************************************)
UpdateInit ==
    /\ cfg \in { c \in Configs : c.router = "" /\ c.apiVersion = "2024-02-01" }
    /\ HandlerIdle({ [model |-> "claude-haiku-x", messages |-> PlainMessages] })
    /\ httpReq = MessagesPost
    /\ store = ""
    /\ conn = "a"
    /\ parked = EmptyObject
    /\ last = "none"
    /\ \E localHead \in Revisions \cup {""}, remoteHead \in Revisions :
          updater = UpdaterStart(localHead, remoteHead)

UpdateNext ==
    \/ \E fetch \in {"ok", "not ok", "error"} : checkForUpdates(fetch)
    \/ \E failsAt \in {"", "pull", "build"} : doUpdate(failsAt)
    \/ Tick
    \/ Push

UpdateSpec == UpdateInit /\ [][UpdateNext]_vars

(***************************************************************************)
(* Tool-call arguments of backend replies: replies in the choice-based and *)
(* in the output-array layout that hold a text and two tool calls, each    *)
(* with arguments that are JSON or are not.                                *)
(***************************************************************************)
\* the first is JSON; the others are cut short, have a trailing comma, have
\* text after the value, are no JSON at all
ArgumentTexts ==
    { "{\"path\":\"a\"}", "{bad", "{\"path\":", "{\"a\":1,}", "{\"path\":\"a\"}}", "path=a" }

ArgumentsBodies ==
    { [json |-> [choices |-> <<
          [message |-> [content |-> "run",
                        tool_calls |-> << [id |-> "call_1",
                                           function |-> [name |-> "ls", arguments |-> a1]],
                                          [id |-> "call_2",
                                           function |-> [name |-> "cat", arguments |-> a2]] >>],
           finish_reason |-> "tool_calls"] >>]] :
        a1 \in ArgumentTexts, a2 \in ArgumentTexts }
    \cup
    { [json |-> [output |-> <<
          [type |-> "message",
           content |-> [blocks |-> << [type |-> "output_text", text |-> "run"] >>]],
          [type |-> "function_call", id |-> "call_1", name |-> "ls", arguments |-> a1],
          [type |-> "function_call", id |-> "call_2", name |-> "cat", arguments |-> a2] >>]] :
        a1 \in ArgumentTexts, a2 \in ArgumentTexts }

ArgumentsInit ==
    /\ cfg \in Configs
    /\ HandlerIdle({ [model |-> "claude-haiku-x", messages |-> PlainMessages] @@ st :
                       st \in OptionalField("stream", {TRUE}) })
    /\ OneConnection

ArgumentsNext ==
    \/ Serve /\ UNCHANGED serverVars
    \/ \E body \in ArgumentsBodies : RequestJsonResolve(200, body) /\ UNCHANGED serverVars

ArgumentsSpec == ArgumentsInit /\ [][ArgumentsNext]_vars

(***************************************************************************)
(* The server: several client connections whose requests are in flight at  *)
(* once, and the requests that follow on them.  Every request gets its own *)
(* invocation of the request handler (line 476), so its state is the       *)
(* handler's closures; the configuration is the one value shared.  The     *)
(* event loop runs one callback at a time: Switch hands the variables of   *)
(* the handler to the connection whose callback runs next.                 *)
(***************************************************************************)
Conns == {"a", "b"}

\* a body JSON.parse rejects
MalformedBody == [raw |-> "{\"model\":"]

ServerConfigs ==
    { c \in Configs : c.router = "" /\ c.apiVersion \in {"2024-02-01", "2025-04-01-preview"} }

ServerRequests ==
    { [model |-> "claude-haiku-x", messages |-> PlainMessages],
      [model |-> "claude-haiku-x", messages |-> PlainMessages, stream |-> TRUE],
      MalformedBody }

ServerReplies ==
    { <<200, [raw |-> "<html>"]>>,
      <<200, [json |-> [id |-> "resp_1", output_text |-> "hello",
                        usage |-> [input_tokens |-> 3, output_tokens |-> 5]]]>>,
      <<404, ErrorBody>>,
      <<500, ErrorBody>> }

ServerStatuses == {200, 500}

\* the lines of a backend stream; the line with the finish reason is its last
ServerLines == { Chunk("t", <<>>, "", 0), Chunk("", <<>>, "length", 7) }

\* the state of the running handler, as one value
Handler ==
    [claudeReq |-> claudeReq, pc |-> pc, mode |-> mode, openaiReq |-> openaiReq,
     optionsList |-> optionsList, i |-> i, lastError |-> lastError,
     outcomes |-> outcomes, result |-> result, sent |-> sent, res |-> res,
     events |-> events, relay |-> relay, nLines |-> nLines, heard |-> heard]

\* the handler of a request that has just arrived
Fresh(req) ==
    [claudeReq |-> req, pc |-> "idle", mode |-> "", openaiReq |-> EmptyObject,
     optionsList |-> <<>>, i |-> 0, lastError |-> "",
     outcomes |-> <<>>, result |-> EmptyObject, sent |-> <<>>, res |-> NoResponse,
     events |-> <<>>, relay |-> InitialRelay, nLines |-> 0, heard |-> NothingHeard]

\* the callback that runs next belongs to the handler h
Resume(h) ==
    /\ claudeReq' = h.claudeReq
    /\ pc' = h.pc
    /\ mode' = h.mode
    /\ openaiReq' = h.openaiReq
    /\ optionsList' = h.optionsList
    /\ i' = h.i
    /\ lastError' = h.lastError
    /\ outcomes' = h.outcomes
    /\ result' = h.result
    /\ sent' = h.sent
    /\ res' = h.res
    /\ events' = h.events
    /\ relay' = h.relay
    /\ nLines' = h.nLines
    /\ heard' = h.heard

\* the catch that writes the status and leaves the response open
ServerCatchHeadOnly(message) ==
    IF res.headersSent THEN res ELSE WriteHead(res, 500)

\* the catch that answers a failure as a bad request
ServerCatchBadRequest(message) ==
    LET headed == IF res.headersSent THEN res ELSE WriteHead(res, 400)
    IN  IF headed.ended THEN headed ELSE End(headed, [error |-> message])

\* lines 599-607: the request handler's catch
ServerCatch(message) ==
    LET headed == IF res.headersSent THEN res ELSE WriteHead(res, 500)
    IN  IF headed.ended THEN headed ELSE End(headed, [error |-> message])

\* line 517: JSON.parse(body) throws, the catch answers
ParseFailure ==
    /\ pc = "idle"
    /\ Route(httpReq) = "messages"
    /\ Has(claudeReq, "raw")
    /\ res' = ServerCatch(ParseErrorMessage)
    /\ pc' = "failed"
    /\ UNCHANGED <<updater, cfg, httpReq, store, claudeReq, mode, openaiReq, optionsList, i, lastError,
                   outcomes, result, sent, events, relay, nLines>>

\* the running handler waits, the handler h of connection c goes on
SwitchTo(c, h) ==
    /\ c \in DOMAIN parked
    /\ conn' = c
    /\ parked' = [d \in (DOMAIN parked \ {c}) \cup {conn} |->
                     IF d = conn THEN Handler ELSE parked[d]]
    /\ Resume(h)
    /\ UNCHANGED <<updater, cfg, httpReq, store, last>>

\* the stream state kept in one place for all connections, not per handler
SwitchSharingRelay(c) ==
    c \in DOMAIN parked /\ SwitchTo(c, [parked[c] EXCEPT !.relay = relay])

\* lines 773-777: the stream state is the handler's own
Switch(c) == c \in DOMAIN parked /\ SwitchTo(c, parked[c])

\* how the request of the running handler ended
Outcome ==
    IF Has(claudeReq, "raw") THEN "malformed JSON"
    ELSE IF pc = "failed" THEN "backend transport failure"
    ELSE IF mode = "native"
         THEN (IF heard.statusCode # 200 THEN "backend non-200" ELSE "ok")
    ELSE IF result.statusCode # 200 THEN "backend non-200"
    ELSE IF Has(result.body, "raw") THEN "unparseable backend body"
    ELSE "ok"

\* line 476: the next request arrives on a connection whose request is over
NextRequest(req) ==
    /\ pc \in {"done", "failed"}
    /\ last' = Outcome
    /\ Resume(Fresh(req))
    /\ UNCHANGED <<updater, cfg, httpReq, store, conn, parked>>

\* a callback of the running handler
Callback ==
    \/ Serve /\ UNCHANGED serverVars
    \/ ParseFailure /\ UNCHANGED serverVars
    \/ \E r \in ServerReplies : RequestJsonResolve(r[1], r[2]) /\ UNCHANGED serverVars
    \/ \E err \in TransportErrors : RequestJsonReject(err) /\ UNCHANGED serverVars
    \/ \E st \in ServerStatuses :
          /\ AzureResponse(st)
          /\ heard' = [heard EXCEPT !.statusCode = st]
          /\ UNCHANGED <<conn, parked, last>>
    \/ AzureErrorEnd(ErrorBody) /\ UNCHANGED serverVars
    \/ \E line \in ServerLines :
          /\ \A k \in DOMAIN heard.lines : heard.lines[k].finish_reason = ""
          /\ AzureData(<<line>>)
          /\ heard' = [heard EXCEPT !.lines = Append(@, line)]
          /\ UNCHANGED <<conn, parked, last>>
    \/ AzureEnd /\ UNCHANGED serverVars
    \/ \E err \in TransportErrors : AzureStreamError(err) /\ UNCHANGED serverVars
    \/ \E err \in TransportErrors : AzureRequestError(err) /\ UNCHANGED serverVars

ServerInit ==
    /\ InitWith(ServerRequests)
    /\ cfg \in ServerConfigs
    /\ httpReq = MessagesPost
    /\ store = Get(cfg, "reasoningEffort", "")
    /\ conn = "a"
    /\ parked \in [Conns \ {"a"} -> {Fresh(req) : req \in ServerRequests}]
    /\ last = "none"
    /\ updater = UpdaterStart("", "1a2b3c4d5e")

ServerNext ==
    \/ Callback
    \/ \E c \in Conns : Switch(c)
    \/ \E req \in ServerRequests : NextRequest(req)

\* Every callback that is due runs: the event loop serves every connection,
\* and every backend request ends with a response or with an error.
ServerFairness ==
    \A c \in Conns : WF_vars(Switch(c)) /\ SF_vars(conn = c /\ Callback)

ServerSpec == ServerInit /\ [][ServerNext]_vars /\ ServerFairness

(***************************************************************************)
(* The router: requests of every method to the health probe, to paths with *)
(* and without the markers of the stubbed endpoints and of the translation *)
(* path, with bodies that are JSON or are not.                             *)
(***************************************************************************)
Methods == {"GET", "POST", "OPTIONS", "PUT", "DELETE", "HEAD"}

Urls ==
    { "/health", "/health?full=1", "/v1/messages", "/v1/messages?beta=true",
      "/v1/messages/count_tokens", "/v1/messages?token=x", "/api/oauth/token",
      "/api/event_logging/batch", "/v1/telemetry", "/v1/models", "/" }

RouteInit ==
    /\ cfg \in ServerConfigs
    /\ httpReq \in [method : Methods, url : Urls]
    /\ store = Get(cfg, "reasoningEffort", "")
    /\ HandlerIdle(ServerRequests)
    /\ conn = "a"
    /\ parked = EmptyObject
    /\ last = "none"
    /\ updater = UpdaterStart("", "1a2b3c4d5e")

RouteNext ==
    \/ Answer /\ UNCHANGED serverVars
    \/ Serve /\ UNCHANGED serverVars
    \/ ParseFailure /\ UNCHANGED serverVars

RouteSpec == RouteInit /\ [][RouteNext]_vars

(***************************************************************************)
(* Properties of the event stream.                                         *)
(***************************************************************************)
IsStreamed == mode \in {"native", "synth"}

\* the positions of the events of one type
Positions(type) == {k \in DOMAIN events : events[k].type = type}

\* the positions of the block events of one type that carry this index
PositionsAt(type, index) == {k \in Positions(type) : events[k].index = index}

\* the stream was closed by message_stop
StreamClosed == events # <<>> /\ events[Len(events)].type = "message_stop"

\* the number of blocks open after the first k events
OpenAfter(k) ==
    Cardinality({j \in Positions("content_block_start") : j <= k})
    - Cardinality({j \in Positions("content_block_stop") : j <= k})

\* C1: in every streamed response that was closed, there are as many
\* content_block_start as content_block_stop events, and in every streamed
\* response each content_block_start carries an index strictly greater than
\* that of every earlier content_block_start.
C1_BlockStartsMatchStops ==
    IsStreamed =>
        /\ StreamClosed =>
              Cardinality(Positions("content_block_start"))
                  = Cardinality(Positions("content_block_stop"))
        /\ \A a, b \in Positions("content_block_start") :
              a < b => events[a].index < events[b].index

\* C2: in every streamed response at most one content block is open after
\* any event, also when the backend stream carries two or more tool calls.
C2_AtMostOneBlockOpen ==
    IsStreamed => \A k \in DOMAIN events : OpenAfter(k) \in {0, 1}

\* C3: in every streamed response, a content_block_delta for an index comes
\* after a content_block_start for that index and never after a
\* content_block_stop for that index.
C3_DeltaInsideItsBlock ==
    IsStreamed =>
        \A k \in Positions("content_block_delta") :
            /\ \E a \in PositionsAt("content_block_start", events[k].index) : a < k
            /\ \A z \in PositionsAt("content_block_stop", events[k].index) : k < z

\* a native relay that closed a text block, streamed the arguments of a tool
\* call under the next index and closed the stream
C3_Witness ==
    /\ mode = "native"
    /\ StreamClosed
    /\ \E k \in Positions("content_block_delta") :
          /\ events[k].delta.type = "input_json_delta"
          /\ events[k].index = 1
          /\ \E z \in PositionsAt("content_block_stop", 0) : z < k

\* C4: in every streamed response message_stop is the last event, it is
\* emitted at most once, message_delta is emitted only as the event right
\* before it, and so no block event follows message_delta.
C4_MessageDeltaAndStopLast ==
    IsStreamed =>
        /\ \A k \in Positions("message_stop") :
              /\ k = Len(events)
              /\ k > 1
              /\ events[k - 1].type = "message_delta"
        /\ \A k \in Positions("message_delta") :
              /\ k = Len(events) - 1
              /\ events[k + 1].type = "message_stop"
        /\ (res.ended /\ pc = "done") => StreamClosed

\* a synthesized stream of two blocks, closed, after a fallback
C4_Witness ==
    /\ mode = "synth"
    /\ pc = "done"
    /\ Len(sent) > 1
    /\ Cardinality(Positions("content_block_stop")) = 2
    /\ StreamClosed

\* the last three events are the close sequence
EndsWithCloseSequence ==
    /\ Len(events) >= 5
    /\ events[Len(events) - 2].type = "content_block_stop"
    /\ events[Len(events) - 1].type = "message_delta"
    /\ events[Len(events)].type = "message_stop"

\* C5: a request that ends on a backend transport failure is answered: with
\* status 500 when it is not streamed, and, when it is streamed, with a text
\* block carrying the error followed by the close sequence.
C5_TransportFailureSurfaced ==
    pc = "failed" =>
        /\ res.ended
        /\ IF mode = "nonstream"
           THEN res.statusCode = 500
           ELSE /\ EndsWithCloseSequence
                /\ \E k \in Positions("content_block_delta") :
                      events[k].delta.type = "text_delta"

\* an empty text block: a text content_block_start right before the
\* content_block_stop of its index
IsEmptyTextBlockAt(k) ==
    /\ k \in Positions("content_block_start")
    /\ events[k].content_block.type = "text"
    /\ k + 1 \in PositionsAt("content_block_stop", events[k].index)

\* C6: when a native backend stream has ended, every block that was started
\* has been stopped, there is at least one block, and an empty text block was
\* synthesized if and only if no other block was started, so that its index is
\* not one an earlier block had.
C6_EmptyBlockOnlyWhenNothingOpened ==
    (mode = "native" /\ pc = "done" /\ StreamClosed) =>
        /\ \A a \in Positions("content_block_start") :
              \E z \in PositionsAt("content_block_stop", events[a].index) : a < z
        /\ Positions("content_block_start") # {}
        /\ \A k \in DOMAIN events :
              IsEmptyTextBlockAt(k) => Positions("content_block_start") = {k}

(***************************************************************************)
(* Properties of the dispatcher.                                           *)
(***************************************************************************)
\* the dispatcher ran and is over
Dispatched == mode \in {"nonstream", "synth"} /\ pc \in {"done", "failed"}

IsResponse(outcome) == Has(outcome, "statusCode")

\* the candidate answered, and not with 404
IsNon404Response(outcome) == IsResponse(outcome) /\ outcome.statusCode # 404

\* what the client received is what this backend response translates to
ClientGot(outcome) ==
    IF mode = "nonstream"
    THEN res = NonStreamingReply(outcome.statusCode, outcome.body)
    ELSE events = <<MessageStart(claudeReq.model)>>
                  \o SynthesizedReply(outcome.statusCode, outcome.body)

\* C7: candidates are attempted strictly in list order, each at most once;
\* the number of attempts is the position of the first candidate whose
\* response is not 404, or the list length when no candidate answers with
\* another status; and when every candidate but the last answers 404 and the
\* last answers 200, the last candidate's response is the result.
C7_AttemptsInOrderUpToFirstNon404 ==
    /\ \A k \in DOMAIN sent :
          /\ sent[k].index = k
          /\ sent[k].options = optionsList[k]
    /\ Dispatched =>
          /\ Len(outcomes) = Len(sent)
          /\ \A k \in 1..(Len(sent) - 1) : ~IsNon404Response(outcomes[k])
          /\ \/ IsNon404Response(outcomes[Len(sent)])
             \/ Len(sent) = Len(optionsList)
          /\ ( /\ Len(optionsList) >= 2
               /\ Len(outcomes) = Len(optionsList)
               /\ \A k \in 1..(Len(outcomes) - 1) :
                     IsResponse(outcomes[k]) /\ outcomes[k].statusCode = 404
               /\ IsResponse(outcomes[Len(outcomes)])
               /\ outcomes[Len(outcomes)].statusCode = 200 )
             => /\ result = [statusCode |-> 200,
                             body |-> outcomes[Len(outcomes)].body,
                             options |-> optionsList[Len(optionsList)]]
                /\ ClientGot(outcomes[Len(outcomes)])

\* three candidates answered 404 and the fourth, the last, answered 200
C7_Witness ==
    /\ Dispatched
    /\ Len(optionsList) = 4
    /\ Len(sent) = 4
    /\ \A k \in 1..3 : IsResponse(outcomes[k]) /\ outcomes[k].statusCode = 404
    /\ IsResponse(outcomes[4]) /\ outcomes[4].statusCode = 200
    /\ Has(outcomes[4].body, "json")

\* C8: after a transport failure on a candidate no later candidate is
\* attempted.
C8_TransportFailureStopsDispatch ==
    \A k \in DOMAIN outcomes : ~IsResponse(outcomes[k]) => Len(sent) = k

\* C9: a response that is not 404, and a 404 of the last candidate, is the
\* dispatcher's result and no later candidate is attempted; a 404 of a
\* candidate that is not the last makes the dispatcher attempt the next one
\* and is never the result.
C9_OnlyNon404OrLast404Returned ==
    /\ \A k \in DOMAIN outcomes :
          IsResponse(outcomes[k]) =>
              IF outcomes[k].statusCode # 404 \/ k = Len(optionsList)
              THEN /\ Len(sent) = k
                   /\ pc = "done"
                   /\ result = [statusCode |-> outcomes[k].statusCode,
                                body |-> outcomes[k].body,
                                options |-> optionsList[k]]
                   /\ ClientGot(outcomes[k])
              ELSE /\ Len(sent) > k
                   /\ sent[k + 1].index = k + 1
    /\ (Has(result, "statusCode") /\ result.statusCode = 404)
          => result.options = optionsList[Len(optionsList)]
    /\ (mode = "nonstream" /\ res.statusCode = 404)
          => Len(sent) = Len(optionsList)

\* a 429 of the second of three candidates was returned after a 404 of the first
C9_Witness ==
    /\ Dispatched
    /\ Len(optionsList) = 3
    /\ Len(outcomes) = 2
    /\ IsResponse(outcomes[1]) /\ outcomes[1].statusCode = 404
    /\ IsResponse(outcomes[2]) /\ outcomes[2].statusCode = 429
    /\ mode = "nonstream"
    /\ res.statusCode = 429

\* the token-limit fields a payload carries
TokenLimitFields(payload) == DOMAIN payload \cap {"max_completion_tokens", "max_output_tokens"}

\* C10: every payload sent to the backend carries one token-limit field and
\* its value lies in 4096..128000.
C10_TokenLimitClamped ==
    \A k \in DOMAIN sent :
        /\ Cardinality(TokenLimitFields(sent[k].payload)) = 1
        /\ \A f \in TokenLimitFields(sent[k].payload) :
              sent[k].payload[f] \in 4096..128000

\* a payload re-derived for the chat-completions fallback of a request that
\* asked for more than the upper limit
C10_Witness ==
    /\ Has(claudeReq, "max_tokens")
    /\ claudeReq.max_tokens = 999999
    /\ Has(openaiReq, "max_output_tokens")
    /\ \E k \in DOMAIN sent :
          /\ k > 1
          /\ IsChatCompletionsPath(sent[k].options)
          /\ sent[k].payload.max_completion_tokens = 128000

\* the value of a payload's token-limit field
TokenLimitOf(payload) ==
    IF Has(payload, "max_output_tokens") THEN payload.max_output_tokens
    ELSE payload.max_completion_tokens

\* C11: the token limit of every payload sent is max(4096, min(v, 128000))
\* for the requested max_tokens v, whatever v is (0 gives 4096, 999999 gives
\* 128000, 8000 gives 8000), and the default 64000 only when the request
\* carries no max_tokens.
C11_TokenLimitIsClampOfRequested ==
    \A k \in DOMAIN sent :
        TokenLimitOf(sent[k].payload) =
            IF Has(claudeReq, "max_tokens")
            THEN Max(4096, Min(claudeReq.max_tokens, 128000))
            ELSE 64000

(***************************************************************************)
(* Properties of the endpoint resolver.                                    *)
(***************************************************************************)
\* the handler has built its payload and candidate list
Served == pc # "idle"

\* the blocks of the request's message history
HistoryBlocks ==
    UNION { Range(claudeReq.messages[m].content.blocks) :
              m \in {k \in DOMAIN claudeReq.messages :
                        Has(claudeReq.messages[k].content, "blocks")} }

HistoryHasBlock(type) == \E b \in HistoryBlocks : b.type = type

\* C12: the responses shape is selected exactly when a router is configured
\* or the API version is of the responses family, and the history has no
\* tool_use and no tool_result block; a history with such a block forces the
\* chat shape even with a router: the payload has `messages` with tool_calls
\* and tool-role entries, and the one candidate is a chat-completions URL.
C12_ResponsesShapeIffNoToolHistory ==
    Served =>
        LET toolHistory == HistoryHasBlock("tool_use") \/ HistoryHasBlock("tool_result")
            alternate == Has(openaiReq, "input")
        IN  /\ alternate <=>
                  /\ \/ cfg.router # ""
                     \/ cfg.apiVersion \in {"2024-08-01-preview", "2025-04-01-preview"}
                  /\ ~toolHistory
            /\ alternate <=> ~Has(openaiReq, "messages")
            /\ alternate <=> ~IsChatCompletionsPath(optionsList[1])
            /\ toolHistory =>
                  /\ Has(openaiReq, "messages")
                  /\ HistoryHasBlock("tool_use") =>
                        \E k \in DOMAIN openaiReq.messages :
                            /\ Has(openaiReq.messages[k], "tool_calls")
                            /\ openaiReq.messages[k].tool_calls # <<>>
                  /\ HistoryHasBlock("tool_result") =>
                        \E k \in DOMAIN openaiReq.messages :
                            /\ openaiReq.messages[k].role = "tool"
                            /\ Has(openaiReq.messages[k], "tool_call_id")
                  /\ Len(optionsList) = 1
                  /\ IsChatCompletionsPath(optionsList[1])
                  /\ \A k \in DOMAIN sent :
                        /\ IsChatCompletionsPath(sent[k].options)
                        /\ Has(sent[k].payload, "messages")

\* a request with a tool history was served in chat shape under a router
C12_Witness ==
    /\ pc = "done"
    /\ cfg.router # ""
    /\ HistoryHasBlock("tool_result")
    /\ Has(openaiReq, "messages")
    /\ Len(sent) = 1
    /\ IsChatCompletionsPath(sent[1].options)

\* the responses URLs of one api version: the router-style one first when a
\* router is configured, then the deployment-scoped one
ResponsesPair(version, deployment) ==
    (IF cfg.router # ""
     THEN <<[path |-> "/openai/responses", deployment |-> "", version |-> version]>>
     ELSE <<>>)
    \o <<[path |-> "/openai/deployments/<d>/responses",
          deployment |-> deployment, version |-> version]>>

\* C16: for the responses shape the candidate list is, for the configured
\* api version and then 2025-04-01-preview (once when they are equal), the
\* router-style URL (with a router only) followed by the deployment-scoped
\* URL; no URL occurs twice; the chat-completions URL is appended as the last
\* entry exactly when no router is configured; for the chat shape the list
\* has exactly one entry.
C16_CandidateListConstruction ==
    Served =>
        LET d == getDeployment(claudeReq.model, cfg)
            chat == [path |-> "/openai/deployments/<d>/chat/completions",
                     deployment |-> d, version |-> cfg.apiVersion]
            n == Len(optionsList)
        IN  /\ \A j, k \in DOMAIN optionsList : j # k => optionsList[j] # optionsList[k]
            /\ IF Has(openaiReq, "input")
               THEN /\ optionsList =
                          ResponsesPair(cfg.apiVersion, d)
                          \o (IF cfg.apiVersion = "2025-04-01-preview" THEN <<>>
                              ELSE ResponsesPair("2025-04-01-preview", d))
                          \o (IF cfg.router = "" THEN <<chat>> ELSE <<>>)
                    /\ (optionsList[n] = chat) <=> (cfg.router = "")
                    /\ \A k \in 1..(n - 1) : optionsList[k] # chat
               ELSE optionsList = <<chat>>

\* a router with the fallback version configured: two candidates, not four
C16_Witness ==
    /\ Served
    /\ Has(openaiReq, "input")
    /\ cfg.router # ""
    /\ cfg.apiVersion = "2025-04-01-preview"
    /\ Len(optionsList) = 2
    /\ Len(sent) = 2

\* the model names that contain the marker 'opus' in some case, and those
\* that contain 'haiku' and not 'opus'
OpusNamed == {"claude-opus-4-1", "Claude-OPUS-4", "haiku-opus-mix"}
HaikuNamed == {"claude-3-5-haiku", "CLAUDE-HAIKU", "claude-haiku-x"}

\* a configured name, or the default where none is configured
OrDefault(name, default) == IF name # "" THEN name ELSE default

\* the candidates whose URL names a deployment
DeploymentScoped == {k \in DOMAIN optionsList : optionsList[k].path # "/openai/responses"}

\* C17: with a router configured the router name is the deployment for every
\* requested model; otherwise a model name containing 'opus' in any case
\* selects the large-tier deployment (default gpt-4o), one containing 'haiku'
\* the small-tier deployment (default gpt-4o-mini), any other name the
\* medium-tier deployment (default gpt-4o); 'opus' wins over 'haiku'.
C17_DeploymentSelection ==
    Served =>
        /\ DeploymentScoped # {}
        /\ \A k \in DeploymentScoped :
              optionsList[k].deployment =
                  IF cfg.router # "" THEN cfg.router
                  ELSE IF claudeReq.model \in OpusNamed
                       THEN OrDefault(cfg.deployments.opus, "gpt-4o")
                  ELSE IF claudeReq.model \in HaikuNamed
                       THEN OrDefault(cfg.deployments.haiku, "gpt-4o-mini")
                  ELSE OrDefault(cfg.deployments.sonnet, "gpt-4o")

\* a name with both markers, 'haiku' first, went to the large-tier deployment
C17_Witness ==
    /\ Served
    /\ cfg.router = ""
    /\ claudeReq.model = "haiku-opus-mix"
    /\ cfg.deployments.opus = "gpt-5"
    /\ cfg.deployments.haiku = "gpt-4.1-mini"
    /\ optionsList[1].deployment = "gpt-5"

C19_RouterGetsClientModelName ==
    cfg.router # "" => \A k \in DOMAIN sent : sent[k].payload.model = claudeReq.model

(***************************************************************************)
(* Properties of the stop reason.                                          *)
(***************************************************************************)
\* the table of stop reasons, a missing finish indicator being ""
StopReasonFor(finishIndicator) ==
    CASE finishIndicator = "stop"           -> "end_turn"
      [] finishIndicator = "length"         -> "max_tokens"
      [] finishIndicator = "tool_calls"     -> "tool_use"
      [] finishIndicator = "content_filter" -> "end_turn"
      [] OTHER                              -> "end_turn"

\* the finish indicator of a parsed backend reply
FinishIndicator(reply) ==
    IF Has(reply, "choices") /\ Has(reply.choices[1], "finish_reason")
    THEN reply.choices[1].finish_reason ELSE ""

\* the last finish reason among the lines of a stream
LastFinishReason(lines) ==
    LET given == {k \in DOMAIN lines : lines[k].finish_reason # ""}
    IN  IF given = {} THEN ""
        ELSE lines[CHOOSE k \in given : \A j \in given : j <= k].finish_reason

\* C20: the stop reason the client gets is the image of the backend's finish
\* indicator under the table stop -> end_turn, length -> max_tokens,
\* tool_calls -> tool_use, content_filter -> end_turn, anything else or
\* nothing -> end_turn: in the reply to a non-streaming request, and in the
\* message_delta of a native stream, for the last finish_reason of the stream.
C20_StopReasonIsTableImage ==
    /\ (mode = "nonstream" /\ pc = "done") =>
          /\ Has(res.body, "json")
          /\ res.body.json.stop_reason = StopReasonFor(FinishIndicator(result.body.json))
    /\ (mode = "native" /\ pc = "done") =>
          /\ events[Len(events) - 1].type = "message_delta"
          /\ events[Len(events) - 1].stop_reason =
                StopReasonFor(LastFinishReason(heard.lines))

\* a stream whose finish reason changed from tool_calls to length
C20_Witness ==
    /\ mode = "native"
    /\ pc = "done"
    /\ Len(heard.lines) = 3
    /\ heard.lines[1].finish_reason = "tool_calls"
    /\ heard.lines[2].finish_reason = "length"
    /\ heard.lines[3].finish_reason = ""
    /\ events[Len(events) - 1].stop_reason = "max_tokens"

(***************************************************************************)
(* Properties of the error paths.                                          *)
(***************************************************************************)
\* the client stream of a native request whose backend answered with an
\* error status and this body
NativeErrorStream(errorBody) ==
    << [type |-> "message_start", model |-> claudeReq.model],
       [type |-> "content_block_start", index |-> 0,
        content_block |-> [type |-> "text", text |-> ""]],
       [type |-> "content_block_delta", index |-> 0,
        delta |-> [type |-> "text_delta", text |-> "Error from Azure: " \o errorBody]],
       [type |-> "content_block_stop", index |-> 0],
       [type |-> "message_delta", stop_reason |-> "end_turn", output_tokens |-> 0],
       [type |-> "message_stop"] >>

\* C13: when the backend's first response to a native streaming request has
\* a status other than 200, the client stream is exactly message_start,
\* content_block_start(0, text), one content_block_delta with the error body,
\* content_block_stop(0), message_delta(end_turn), message_stop, and the
\* response is then ended; the status the client got stays 200.
C13_NativeErrorStatusIsOneTextBlock ==
    [][ (mode = "native" /\ pc = "error_body" /\ pc' = "done") =>
          /\ events = <<[type |-> "message_start", model |-> claudeReq.model]>>
          /\ ~res.ended
          /\ events' = NativeErrorStream(ErrorBody)
          /\ res'.ended
          /\ res'.statusCode = 200
          /\ res'.body = EmptyObject ]_vars

\* a native stream that ended with the backend's error body in a text block
C13_Witness ==
    /\ mode = "native"
    /\ pc = "done"
    /\ res.ended
    /\ Len(events) = 6
    /\ events[3].type = "content_block_delta"
    /\ events[3].delta.text = "Error from Azure: " \o ErrorBody

(***************************************************************************)
(* Properties of the server.                                               *)
(***************************************************************************)
\* the handler of a connection
HandlerOf(c) == IF c = conn THEN Handler ELSE parked[c]

Over(h) == h.pc \in {"done", "failed"}

\* the events the running handler's request gives when it is the only one,
\* from what the backend delivered to it
EventsAlone ==
    IF mode \in {"", "nonstream"} THEN <<>>
    ELSE <<[type |-> "message_start", model |-> claudeReq.model]>> \o
         IF mode = "synth"
         THEN CASE pc = "done" ->
                     SynthesizedReply(outcomes[Len(outcomes)].statusCode,
                                      outcomes[Len(outcomes)].body)
                [] pc = "failed" ->
                     ErrorBlockEvents("Error from Azure: " \o outcomes[Len(outcomes)].error)
                [] OTHER -> <<>>
         ELSE IF heard.statusCode # 200
              THEN (IF pc = "done" THEN Tail(NativeErrorStream(ErrorBody)) ELSE <<>>)
              ELSE LET s == ProcessLines(With(InitialRelay, "out", <<>>), heard.lines)
                   IN  s.out \o (IF pc = "done" THEN EndEvents(Without(s, "out")) ELSE <<>>)

\* the client response of the running handler's request when it is the only one
ResponseAlone ==
    CASE pc = "idle" -> NoResponse
      [] pc # "idle" /\ Has(claudeReq, "raw") ->
            End(WriteHead(NoResponse, 500), [error |-> ParseErrorMessage])
      [] pc # "idle" /\ mode = "nonstream" ->
            IF ~Over(Handler) THEN NoResponse
            ELSE LET o == outcomes[Len(outcomes)]
                 IN  IF pc = "failed"
                     THEN End(WriteHead(NoResponse, 500), [error |-> o.error])
                     ELSE IF o.statusCode # 200
                     THEN End(WriteHead(NoResponse, o.statusCode), [raw |-> o.body])
                     ELSE IF Has(o.body, "json")
                     THEN End(WriteHead(NoResponse, 200),
                              [json |-> convertResponse(o.body.json, claudeReq.model)])
                     ELSE End(WriteHead(NoResponse, 500), [error |-> ParseErrorMessage])
      [] OTHER ->
            IF Over(Handler) THEN EndStream(WriteHead(NoResponse, 200))
            ELSE WriteHead(NoResponse, 200)

ServedAsAlone == events = EventsAlone /\ res = ResponseAlone

C15_ConcurrentRequestsIndependent ==
    /\ [][ /\ cfg' = cfg
           /\ conn' = conn => parked' = parked
           /\ conn' # conn =>
                 /\ parked'[conn] = Handler
                 /\ Handler' = parked[conn']
                 /\ \A c \in Conns \ {conn, conn'} : parked'[c] = parked[c] ]_vars
    /\ []ServedAsAlone

\* two native streams are open at once and have relayed different lines
C15_Witness ==
    /\ mode = "native"
    /\ pc = "streaming"
    /\ Len(heard.lines) = 2
    /\ \E c \in DOMAIN parked :
          /\ parked[c].mode = "native"
          /\ parked[c].pc = "streaming"
          /\ Len(parked[c].heard.lines) = 2
          /\ parked[c].heard.lines # heard.lines
          /\ parked[c].events # events

\* the tool invocations of the history's assistant messages, in order
HistoryToolUses ==
    Concat(MapSeq(SelectSeq(claudeReq.messages,
                            LAMBDA m : m.role = "assistant" /\ Has(m.content, "blocks")),
                  LAMBDA m : BlocksOfType(m.content.blocks, "tool_use")))

\* the tool invocations of the client's reply, in order
ReplyToolUses == BlocksOfType(res.body.json.content, "tool_use")

\* the backend replied 200 with the tool calls of the payload it was sent
Echoed ==
    /\ pc = "done"
    /\ mode = "nonstream"
    /\ result.statusCode = 200
    /\ result.body = EchoBody(SentToolCalls(sent[Len(sent)].payload.messages))

\* C21: when the backend's reply holds the tool calls the history was
\* translated to, the client's reply holds as many tool invocations as the
\* history's assistant messages, and the k-th has the name, the identifier
\* and the input structure of the k-th of the history
C21_ToolUseRoundTrip ==
    Echoed =>
        /\ Len(ReplyToolUses) = Len(HistoryToolUses)
        /\ \A k \in DOMAIN HistoryToolUses :
              /\ ReplyToolUses[k].name = HistoryToolUses[k].name
              /\ ReplyToolUses[k].id = HistoryToolUses[k].id
              /\ ReplyToolUses[k].input = HistoryToolUses[k].input

\* two invocations that differ in identifier and name came back, the first
\* with a quote in a string of its input and the second with a nested object
C21_Witness ==
    /\ Echoed
    /\ Len(ReplyToolUses) = 2
    /\ ReplyToolUses[1].id = "toolu_2" /\ ReplyToolUses[2].id = "toolu_1"
    /\ ReplyToolUses[1].name = "cat" /\ ReplyToolUses[2].name = "ls"
    /\ ReplyToolUses[1].input = [path |-> [str |-> "say \"hi\""], limit |-> [num |-> 120]]
    /\ Has(ReplyToolUses[2].input, "opts")
    /\ ReplyToolUses[2].input.opts.obj.recursive = [bool |-> TRUE]

\* the tool calls of a reply of ArgumentsBodies: identifier, name, arguments
ReplyCalls(json) ==
    IF Has(json, "choices")
    THEN MapSeq(json.choices[1].message.tool_calls,
                LAMBDA tc : [id |-> tc.id, name |-> tc.function.name,
                             args |-> tc.function.arguments])
    ELSE MapSeq(SelectSeq(json.output, LAMBDA item : item.type = "function_call"),
                LAMBDA item : [id |-> item.id, name |-> item.name, args |-> item.arguments])

\* the text of a reply of ArgumentsBodies
ReplyText(json) ==
    IF Has(json, "choices") THEN json.choices[1].message.content
    ELSE json.output[1].content.blocks[1].text

Unparseable(args) == ~JSONParse(args).ok

\* the dispatcher returned a 200 reply with tool calls
ToolCallsReturned ==
    /\ pc = "done"
    /\ result.statusCode = 200
    /\ Has(result.body, "json")
    /\ ReplyCalls(result.body.json) # <<>>

\* the content blocks the reply stands for: its text, then one tool
\* invocation per call, with an empty input where the arguments are no JSON
RecoveredContent(json) ==
    << [type |-> "text", text |-> ReplyText(json)] >>
    \o MapSeq(ReplyCalls(json),
              LAMBDA c : [type |-> "tool_use", id |-> c.id, name |-> c.name,
                          input |-> IF Unparseable(c.args) THEN EmptyObject
                                    ELSE JSONParse(c.args).value])

\* the events of these content blocks: each block started, filled by one
\* delta and stopped, under its position as index
RecoveredEvents(content) ==
    Concat([k \in DOMAIN content |->
        << ContentBlockStart(k - 1, IF content[k].type = "text" THEN EmptyTextBlock
                                    ELSE ToolUseBlock(content[k].id, content[k].name)),
           ContentBlockDelta(k - 1, IF content[k].type = "text"
                                    THEN TextDelta(content[k].text)
                                    ELSE InputJsonDelta(IF content[k].input = EmptyObject
                                                        THEN "{}" ELSE "{\"path\":\"a\"}")),
           ContentBlockStop(k - 1) >>])

\* C22: a 200 reply whose tool calls have arguments that are no JSON is
\* answered like any other: a non-streaming client gets a 200 whose content
\* is the reply's text and one tool invocation per call, with an empty
\* input for the calls whose arguments are no JSON; a streaming client gets
\* the events of these same blocks, closed by message_delta and message_stop
C22_UnparseableArgumentsRecovered ==
    ToolCallsReturned =>
        LET content == RecoveredContent(result.body.json)
        IN  /\ res.statusCode = 200
            /\ res.ended
            /\ mode = "nonstream" => /\ Has(res.body, "json")
                                     /\ res.body.json.content = content
            /\ mode # "nonstream" =>
                  /\ Len(events) = 3 * Len(content) + 3
                  /\ events[1] = MessageStart(claudeReq.model)
                  /\ SubSeq(events, 2, Len(events) - 2) = RecoveredEvents(content)
                  /\ events[Len(events) - 1].type = "message_delta"
                  /\ events[Len(events)] = MessageStop

\* a reply in the output-array layout whose first call has arguments cut
\* short and whose second has JSON arguments was answered to a
\* non-streaming client, and one in the choice-based layout to a streaming one
C22_Witness ==
    /\ ToolCallsReturned
    /\ LET calls == ReplyCalls(result.body.json)
       IN  /\ Unparseable(calls[1].args)
           /\ ~Unparseable(calls[2].args)
           /\ \/ mode = "nonstream" /\ Has(result.body.json, "output")
                 /\ res.body.json.content[2].input = EmptyObject
                 /\ res.body.json.content[3].input = PathObject
              \/ mode = "synth" /\ Has(result.body.json, "choices")
                 /\ events[6] = ContentBlockDelta(1, InputJsonDelta("{}"))

\* the dispatcher returned its final result to the non-streaming handler
NonStreamingReturned == pc = "done" /\ mode = "nonstream"

\* the reply is the backend's status and body, unchanged
Verbatim == res.statusCode = result.statusCode /\ res.body = [raw |-> result.body]

\* C23 as stated: the reply to a non-streaming request is a 200 with a
\* response object when the final result's status is 200, and the final
\* result's status and body unchanged otherwise
C23_ReplyIs200OrBackendVerbatim ==
    NonStreamingReturned =>
        IF result.statusCode = 200
        THEN res.statusCode = 200 /\ Has(res.body, "json")
        ELSE Verbatim

\* C23 amended: the reply to a non-streaming request is the final result's
\* status and body unchanged when the status is not 200; a 200 with the
\* reverse-mapped response when the status is 200 and the body is JSON; a
\* 500 with the parse error's message when the status is 200 and the body
\* is no JSON
C23_ReplyFollowsFinalResult ==
    NonStreamingReturned =>
        /\ res.ended
        /\ IF result.statusCode # 200 THEN Verbatim
           ELSE IF Has(result.body, "json")
           THEN /\ res.statusCode = 200
                /\ res.body = [json |-> convertResponse(result.body.json, claudeReq.model)]
           ELSE /\ res.statusCode = 500
                /\ res.body = [error |-> ParseErrorMessage]

\* every candidate of a list of several answered 404, and the client got
\* the 404 and its body
C23_Witness ==
    /\ NonStreamingReturned
    /\ Len(optionsList) > 1
    /\ Len(outcomes) = Len(optionsList)
    /\ \A k \in DOMAIN outcomes : outcomes[k].statusCode = 404
    /\ res.statusCode = 404
    /\ res.body = [raw |-> ErrorBody]

\* the handler has answered or has written its first backend request
Handled == pc # "idle"

\* the body was parsed and a backend request was written
Translated == sent # <<>> /\ openaiReq # EmptyObject

\* C24 as stated: a POST whose url contains '/messages' and whose body is
\* JSON is translated and a backend request is written for it, whatever
\* else the url contains
C24_MessagesPostIsTranslated ==
    ( /\ Handled
      /\ httpReq.method = "POST"
      /\ UrlIncludes(httpReq.url, "/messages")
      /\ ~Has(claudeReq, "raw") ) => Translated

\* the health probe; a url with a marker of the stubbed endpoints
HealthProbe == httpReq.url = "/health"
StubMarked ==
    \E marker \in {"auth", "token", "telemetry", "event_logging"} :
        UrlIncludes(httpReq.url, marker)

\* a request that is none of the three the router knows
Unrouted ==
    /\ ~HealthProbe
    /\ ~StubMarked
    /\ ~(httpReq.method = "POST" /\ UrlIncludes(httpReq.url, "/messages"))

NotFoundReply ==
    /\ res.statusCode = 404
    /\ res.ended
    /\ res.body = [json |-> [error |-> "Not found: " \o httpReq.url]]

\* C25 as stated: a request that is none of the three the router knows is
\* answered 404 with {error: 'Not found: <url>'}, whatever its method, and
\* no backend request is written for it
C25_UnroutedIsNotFound ==
    (Handled /\ Unrouted) => NotFoundReply /\ sent = <<>>

\* C25 amended: a request that is none of the three the router knows is
\* answered 404 with {error: 'Not found: <url>'} when its method is not
\* OPTIONS; a request with the method OPTIONS is answered 204 without a
\* body, whatever its url; no backend request is written for either
C25_UnroutedIsNotFoundUnlessOptions ==
    /\ (Handled /\ Unrouted /\ httpReq.method # "OPTIONS") => NotFoundReply /\ sent = <<>>
    /\ (Handled /\ httpReq.method = "OPTIONS") =>
          /\ res.statusCode = 204
          /\ res.ended
          /\ res.body = EmptyObject
          /\ sent = <<>>

\* a GET to the translation path was answered 404
C25_Witness ==
    /\ Handled
    /\ httpReq = [method |-> "GET", url |-> "/v1/messages"]
    /\ NotFoundReply
    /\ sent = <<>>

\* C26: a request to the translation path whose body is no JSON is answered
\* 500 with the parse error's message, the response is ended, and no
\* backend request is written for it
C26_MalformedBodyIs500 ==
    (Handled /\ Route(httpReq) = "messages" /\ Has(claudeReq, "raw")) =>
        /\ res.statusCode = 500
        /\ res.body = [error |-> ParseErrorMessage]
        /\ res.ended
        /\ sent = <<>>
        /\ openaiReq = EmptyObject

\* a POST to the translation path with a body cut short was answered 500
C26_Witness ==
    /\ pc = "failed"
    /\ httpReq = [method |-> "POST", url |-> "/v1/messages?beta=true"]
    /\ claudeReq = MalformedBody
    /\ res.statusCode = 500
    /\ res.ended

\* the level of a payload's reasoning directive, "" when it has none
ReasoningOf(payload) ==
    IF Has(payload, "reasoning") THEN payload.reasoning.effort
    ELSE Get(payload, "reasoning_effort", "")

\* C27 as stated: the payload of a request the gateway starts to handle
\* while a level is stored carries that level in its reasoning directive,
\* when the directive applies to the payload's model
C27_StoredLevelReachesNextRequest ==
    [][ ( /\ pc = "idle" /\ pc' # "idle"
          /\ store # ""
          /\ shouldApplyReasoning(openaiReq'.model, cfg) )
        => ReasoningOf(openaiReq') = store ]_vars

\* the payload the handler builds for the request and hands to the dispatcher
HandedPayload ==
    LET useResponsesAPI == UseResponsesAPI(claudeReq, cfg)
        built == buildOpenAIRequest(claudeReq, cfg, useResponsesAPI)
    IN  IF useResponsesAPI THEN [built EXCEPT !.stream = FALSE] ELSE built

\* the payload is of the alternate shape and the candidate of the native one
OtherShape(options, payload) == IsChatCompletionsPath(options) /\ Has(payload, "input")

\* payload `derived` is payload `given` with the prompt field and the
\* token-limit field renamed, and nothing else changed
Rederived(derived, given) ==
    /\ DOMAIN derived = (DOMAIN given \ {"input", "max_output_tokens"})
                            \cup {"messages", "max_completion_tokens"}
    /\ derived.messages = given.input
    /\ derived.max_completion_tokens = given.max_output_tokens
    /\ \A f \in DOMAIN given \ {"input", "max_output_tokens"} : derived[f] = given[f]

\* the dispatcher was called
Dispatching == pc \in {"dispatch", "done", "failed"} /\ mode \in {"nonstream", "synth"}

\* C28: while the dispatcher runs and after it returned or threw, the
\* caller's payload is the payload it was handed, field by field; each
\* attempt carries that payload, or for a candidate of the other shape the
\* payload re-derived from it, whatever the attempts before it carried
C28_DispatcherLeavesPayloadAlone ==
    (Dispatching /\ sent # <<>>) =>
        /\ openaiReq = HandedPayload
        /\ \A k \in DOMAIN sent :
              IF OtherShape(sent[k].options, HandedPayload)
              THEN Rederived(sent[k].payload, HandedPayload)
              ELSE sent[k].payload = HandedPayload

\* the dispatcher threw after its last attempt, which carried a re-derived
\* payload, while the attempt before it carried the payload as handed
C28_Witness ==
    /\ Dispatching
    /\ pc = "failed"
    /\ Len(sent) >= 2
    /\ OtherShape(sent[Len(sent)].options, HandedPayload)
    /\ Has(sent[Len(sent)].payload, "max_completion_tokens")
    /\ sent[Len(sent) - 1].payload = HandedPayload
    /\ Has(openaiReq, "input")

\* the backend's tool-call indexes, and the identifier its deltas give each
CallIndexes == {0, 1}
CallId(tcIndex) == IF tcIndex = 0 THEN "call_0" ELSE "call_1"

\* the tool-call deltas the backend sent for an index, in order
SentDeltas(tcIndex) ==
    Concat(MapSeq(SelectSeq(heard.lines, LAMBDA line : ~Has(line, "skip")),
                  LAMBDA line : SelectSeq(line.tool_calls,
                                          LAMBDA tc : tc.index = tcIndex)))

NameKnown(tcIndex) == \E k \in DOMAIN SentDeltas(tcIndex) : SentDeltas(tcIndex)[k].name # ""

IsToolUseStart(e) == e.type = "content_block_start" /\ e.content_block.type = "tool_use"
IsTextStart(e) == e.type = "content_block_start" /\ e.content_block.type = "text"

\* the tool_use blocks started for an index
StartsOf(tcIndex) ==
    SelectSeq(events, LAMBDA e : IsToolUseStart(e) /\ e.content_block.id = CallId(tcIndex))

\* the events written before the first tool_use block was started
BeforeFirstToolUse ==
    IF \E p \in DOMAIN events : IsToolUseStart(events[p])
    THEN SubSeq(events, 1, (CHOOSE p \in DOMAIN events :
                               /\ IsToolUseStart(events[p])
                               /\ \A q \in 1..(p - 1) : ~IsToolUseStart(events[q])) - 1)
    ELSE <<>>

\* the native relay is receiving the backend's stream, or has received it
Relaying == mode = "native" /\ pc \in {"streaming", "done"} /\ heard.statusCode = 200

\* C29: in the native relay, every text block started before the first
\* tool_use block is stopped before it; after every chunk, exactly one
\* tool_use block is started for each backend index whose name the chunks
\* so far gave, and none for an index whose name they did not give
C29_ToolBlocksStartOnceWhenNamed ==
    Relaying =>
        /\ Len(SelectSeq(BeforeFirstToolUse, IsTextStart))
             = Len(SelectSeq(BeforeFirstToolUse, LAMBDA e : e.type = "content_block_stop"))
        /\ \A tcIndex \in CallIndexes :
              Len(StartsOf(tcIndex)) = IF NameKnown(tcIndex) THEN 1 ELSE 0
        /\ Len(SelectSeq(events, IsToolUseStart))
             = Cardinality({ tcIndex \in CallIndexes : NameKnown(tcIndex) })

\* a text block was open when a delta without a name arrived for index 1,
\* whose name never came; the name of index 0 came later: the text block
\* was stopped, and one tool_use block was started, for index 0
C29_Witness ==
    /\ Relaying
    /\ Len(heard.lines) = 3
    /\ heard.lines[1] = Chunk("t", <<>>, "", 0)
    /\ heard.lines[2] = Chunk("", << [index |-> 1, id |-> "", name |-> "",
                                      arguments |-> "x"] >>, "", 0)
    /\ NameKnown(0) /\ ~NameKnown(1)
    /\ Len(events) >= 5
    /\ events[4] = ContentBlockStop(0)
    /\ IsToolUseStart(events[5])
    /\ Len(SelectSeq(events, IsToolUseStart)) = 1
    /\ Len(StartsOf(0)) = 1

\* the argument fragments the backend sent for an index, concatenated
SentArguments(tcIndex) ==
    JoinStrings(MapSeq(SentDeltas(tcIndex), LAMBDA tc : tc.arguments))

\* the partial_json fragments written under the index of the block started
\* for a backend index, concatenated; nothing when no block was started
EmittedArguments(tcIndex) ==
    IF StartsOf(tcIndex) = <<>> THEN ""
    ELSE JoinStrings(MapSeq(
            SelectSeq(events, LAMBDA e : /\ e.type = "content_block_delta"
                                         /\ e.delta.type = "input_json_delta"
                                         /\ e.index = StartsOf(tcIndex)[1].index),
            LAMBDA e : e.delta.partial_json))

\* C30 as stated: in the native relay, the partial_json fragments written
\* for a tool call concatenate to the argument fragments the backend sent
\* for its index
C30_ArgumentFragmentsAllRelayed ==
    Relaying => \A tcIndex \in CallIndexes : EmittedArguments(tcIndex) = SentArguments(tcIndex)

\* the dispatcher returned a 200 reply with a JSON body to the handler of a
\* synthesized stream
SynthesizedFrom200 ==
    /\ pc = "done"
    /\ mode = "synth"
    /\ result.statusCode = 200
    /\ Has(result.body, "json")

\* the response the reply is reverse-mapped to
MappedResponse == convertResponse(result.body.json, claudeReq.model)

\* events 3k-1, 3k, 3k+1 are the cycle of block k, under index k-1
CycleOf(k, block) ==
    /\ events[3 * k - 1].type = "content_block_start"
    /\ events[3 * k - 1].index = k - 1
    /\ events[3 * k - 1].content_block.type = block.type
    /\ events[3 * k].type = "content_block_delta"
    /\ events[3 * k].index = k - 1
    /\ events[3 * k].delta = IF block.type = "text" THEN TextDelta(block.text)
                             ELSE InputJsonDelta(JSONStringify(block.input))
    /\ events[3 * k + 1] = ContentBlockStop(k - 1)

\* C31: the synthesized stream of a 200 reply with n reverse-mapped blocks
\* is message_start, the start/delta/stop cycle of each block in order under
\* the indexes 0..n-1 (for n = 0 the start and stop of one empty text block
\* under index 0), message_delta with the response's stop reason and
\* output-token count, and message_stop; then the response is ended
C31_SynthesizedStreamIsCyclePerBlock ==
    SynthesizedFrom200 =>
        LET content == MappedResponse.content
            n == Len(content)
        IN  /\ res.ended
            /\ events[1] = MessageStart(claudeReq.model)
            /\ IF n = 0
               THEN /\ Len(events) = 5
                    /\ events[2] = ContentBlockStart(0, EmptyTextBlock)
                    /\ events[3] = ContentBlockStop(0)
               ELSE /\ Len(events) = 3 * n + 3
                    /\ \A k \in 1..n : CycleOf(k, content[k])
            /\ events[Len(events) - 1] = MessageDelta(MappedResponse.stop_reason,
                                                      MappedResponse.usage.output_tokens)
            /\ events[Len(events)] = MessageStop

\* a reply with a text and a tool call was streamed as two cycles
C31_Witness ==
    /\ SynthesizedFrom200
    /\ Len(MappedResponse.content) = 2
    /\ MappedResponse.content[2].type = "tool_use"
    /\ Len(events) = 9
    /\ events[5].content_block.type = "tool_use"
    /\ events[8] = MessageDelta("tool_use", 0)

IsBlockEvent(e) ==
    e.type \in {"content_block_start", "content_block_delta", "content_block_stop"}

\* C32: a streaming request served in the native shape has one candidate
\* and one backend request, to that candidate, in every state from its
\* start to its end, whatever the backend answered; a streaming request
\* served in the alternate shape has written no content block event while
\* its dispatcher has not returned or thrown
C32_NativeOneRequestSynthNothingEarly ==
    /\ mode = "native" =>
          /\ Len(optionsList) = 1
          /\ Len(sent) = 1
          /\ sent[1].index = 1
          /\ sent[1].options = optionsList[1]
          /\ outcomes = <<>>
    /\ (mode = "synth" /\ pc = "dispatch") =>
          \A k \in DOMAIN events : ~IsBlockEvent(events[k])

\* a native stream whose backend request was answered with an error status
\* ended with the error's text block and still one request; or a
\* synthesized stream is at its third attempt with nothing but
\* message_start written
C32_Witness ==
    \/ /\ mode = "native"
       /\ pc = "done"
       /\ Len(events) >= 3
       /\ events[3] = ContentBlockDelta(0, TextDelta("Error from Azure: " \o ErrorBody))
       /\ Len(sent) = 1
    \/ /\ mode = "synth"
       /\ pc = "dispatch"
       /\ Len(sent) = 3
       /\ events = <<MessageStart(claudeReq.model)>>

\* the payload holds a reasoning directive, nested or flat
HasDirective(payload) == Has(payload, "reasoning") \/ Has(payload, "reasoning_effort")

EffortConfigured == Get(cfg, "reasoningEffort", "") # ""
TargetConfigured == Get(cfg, "reasoningModel", "") # ""
MatchesTarget == TargetConfigured /\ EqualsLowerCase(openaiReq.model, cfg.reasoningModel)
InReasoningFamily == ModelIncludes(openaiReq.model, "gpt-5")

\* C33 as stated: the payload holds the directive exactly when an effort is
\* configured and the resolved model is the configured reasoning model, or
\* a router is in effect, or no reasoning model is configured and the
\* resolved model's name contains 'gpt-5'
C33_DirectiveIffRouterOrMatch ==
    Served =>
        ( HasDirective(openaiReq) <=>
            /\ EffortConfigured
            /\ \/ MatchesTarget
               \/ cfg.router # ""
               \/ ~TargetConfigured /\ InReasoningFamily )

\* C33 amended: the payload holds the directive exactly when an effort is
\* configured and either a reasoning model is configured and the resolved
\* model is that model or a router is in effect, or no reasoning model is
\* configured and the resolved model's name contains 'gpt-5'; the directive
\* holds the configured effort
C33_DirectiveIffTargetedOrFamily ==
    Served =>
        /\ HasDirective(openaiReq) <=>
             /\ EffortConfigured
             /\ \/ TargetConfigured /\ (MatchesTarget \/ cfg.router # "")
                \/ ~TargetConfigured /\ InReasoningFamily
        /\ HasDirective(openaiReq) => ReasoningOf(openaiReq) = cfg.reasoningEffort

\* with a router, a reasoning model and an effort configured, the payload
\* for the router holds the directive though the router is not that model
C33_Witness ==
    /\ Served
    /\ cfg.router # "" /\ TargetConfigured /\ EffortConfigured
    /\ ~MatchesTarget
    /\ Has(openaiReq, "reasoning")
    /\ openaiReq.reasoning.effort = cfg.reasoningEffort

\* the backend entries of a payload, under the field of its shape
EntriesOf(payload) == IF Has(payload, "input") THEN payload.input ELSE payload.messages

\* the text blocks and the inline images of the request's one message
TextBlocksSent == BlocksOfType(claudeReq.messages[1].content.blocks, "text")
InlineImagesSent ==
    SelectSeq(claudeReq.messages[1].content.blocks,
              LAMBDA b : b.type = "image" /\ b.source.type = "base64")

\* C34: in both backend shapes a message of text and image blocks that
\* reduces to one text block and no image becomes one backend entry whose
\* content is that block's text as a string; every other combination of
\* texts and images becomes one entry whose content is a block sequence
C34_OneTextBlockIsFlattened ==
    Served =>
        /\ Len(EntriesOf(openaiReq)) = 1
        /\ EntriesOf(openaiReq)[1].role = claudeReq.messages[1].role
        /\ IF Len(TextBlocksSent) = 1 /\ InlineImagesSent = <<>>
           THEN EntriesOf(openaiReq)[1].content = [str |-> TextBlocksSent[1].text]
           ELSE /\ Has(EntriesOf(openaiReq)[1].content, "blocks")
                /\ Len(EntriesOf(openaiReq)[1].content.blocks)
                     = Len(TextBlocksSent) + Len(InlineImagesSent)

\* the fields of a payload in the native form: prompt and limit under the
\* native names, the directive flat, every tool declaration nested
NativeForm(payload) ==
    /\ Has(payload, "messages") /\ Has(payload, "max_completion_tokens")
    /\ ~Has(payload, "input") /\ ~Has(payload, "max_output_tokens")
    /\ ~Has(payload, "reasoning")
    /\ Has(payload, "tools") => \A t \in Range(payload.tools) : Has(t, "function")

\* the fields of a payload in the alternate form: prompt and limit under the
\* alternate names, the directive nested, every tool declaration flat
AlternateForm(payload) ==
    /\ Has(payload, "input") /\ Has(payload, "max_output_tokens")
    /\ ~Has(payload, "messages") /\ ~Has(payload, "max_completion_tokens")
    /\ ~Has(payload, "reasoning_effort")
    /\ Has(payload, "tools") => \A t \in Range(payload.tools) : ~Has(t, "function")

\* C35: every attempt's payload is in the form of its URL: on a
\* chat-completions URL the native form, on a responses URL the alternate
\* form, with the tool declarations and the reasoning directive in the form
\* of that URL too, the fallback attempt of an alternate-shape request
\* included
C35_AttemptsAreShapeConsistent ==
    \A k \in DOMAIN sent :
        IF IsChatCompletionsPath(sent[k].options)
        THEN NativeForm(sent[k].payload)
        ELSE AlternateForm(sent[k].payload)

\* the reply is a client-format response that holds a tool_use block
ReplyHasToolUse ==
    /\ res.statusCode = 200 /\ Has(res.body, "json")
    /\ \E b \in Range(res.body.json.content) : b.type = "tool_use"

\* event k is the message_delta of a stream in which a tool_use block was started
DeltaAfterToolUse(k) ==
    /\ events[k].type = "message_delta"
    /\ \E j \in 1..(k - 1) : /\ events[j].type = "content_block_start"
                            /\ events[j].content_block.type = "tool_use"

\* C36: a client-format response that holds a tool_use block has the stop
\* reason 'tool_use', be it the reply to a non-streaming request or the
\* message_delta of a streamed one, in each layout of the backend's reply
C36_ToolUseMeansStopReasonToolUse ==
    /\ ReplyHasToolUse => res.body.json.stop_reason = "tool_use"
    /\ \A k \in DOMAIN events : DeltaAfterToolUse(k) => events[k].stop_reason = "tool_use"

\* the content_block_start events written so far, in the order written
BlockStarts == SelectSeq(events, LAMBDA e : e.type = "content_block_start")

\* C37: the indices of the content_block_start events of a streamed
\* response are 0, 1, 2, ... in the order the events were written, whatever
\* tool-call indices the backend uses, in whatever order the names of the
\* tool calls become known, with and without a text block before them
C37_BlockStartIndicesAreContiguous ==
    IsStreamed => \A k \in DOMAIN BlockStarts : BlockStarts[k].index = k - 1

\* C38: every payload sent for a request served in the alternate shape, to
\* every candidate, the chat-completions fallback included, has stream
\* false, also when the client asked for a stream; the payload of the
\* backend request of a native relay has stream true
C38_StreamFlagFollowsMode ==
    \A k \in DOMAIN sent :
        /\ UseResponsesAPI(claudeReq, cfg) => sent[k].payload.stream = FALSE
        /\ mode = "native" => sent[k].payload.stream = TRUE

\* a client asked for a stream in the alternate shape; the responses
\* candidate answered 404 and the fallback was sent with stream false
C38_Witness ==
    /\ mode = "synth"
    /\ claudeReq.stream = TRUE
    /\ Len(sent) = Len(optionsList) /\ Len(sent) > 1
    /\ IsChatCompletionsPath(sent[Len(sent)].options)
    /\ Has(sent[Len(sent)].payload, "messages")
    /\ sent[Len(sent)].payload.stream = FALSE
    /\ outcomes # <<>> /\ outcomes[1].statusCode = 404

\* the cache file holds a cache that is fresh at the updater's clock
FreshCache == CacheIsFresh(loadCache(updater.cacheFile), updater.now)

\* the same of the step's second state
FreshCacheAfter == CacheIsFresh(loadCache(updater'.cacheFile), updater'.now)

\* the step is a call of checkForUpdates
IsCheck == updater'.checks = updater.checks + 1

\* C39: a check made while the cache a remote check wrote is fresh makes no
\* request to GitHub and returns the answer that remote check returned,
\* also when the local revision is 'unknown'; a check made without a fresh
\* cache asks GitHub; after an update that completed the cache is not fresh,
\* and it stays so until the next check
C39_CachedAnswerIsTheRemoteAnswer ==
    [][ /\ (IsCheck /\ FreshCache)
            => /\ updater'.fetches = updater.fetches
               /\ updater'.answer = updater.written
        /\ (IsCheck /\ ~FreshCache) => updater'.fetches = updater.fetches + 1
        /\ updater'.updated = "complete" => ~FreshCacheAfter
        /\ (~IsCheck /\ ~FreshCache) => ~FreshCacheAfter ]_vars
====
